---- MODULE Spec2Model ----
(***************************************************************************)
(* A model of the EDID decoder of edid-parser-ts (parseEdid and the        *)
(* functions it calls).  Byte buffers are sequences of integers; code      *)
(* offsets are 0-based, sequence indices 1-based.                          *)
(*                                                                         *)
(* JavaScript values that may be `undefined` are modelled as follows:      *)
(*   number | undefined   -> an integer, Undefined (-1) for undefined      *)
(*   boolean | undefined  -> "true", "false" or "undefined"                *)
(*   object | undefined   -> a record with a field `defined`               *)
(* Warnings are tracked by code, blockIndex and offset.  Warnings of code  *)
(* out_of_range_read (one per out-of-range readU8) are not tracked.        *)
(***************************************************************************)
EXTENDS Integers, Sequences, FiniteSets, TLC

VARIABLES
  callerBuf,    \* the elements of the caller's `data` argument
  callerKind,   \* the representation of `data`
  ownBuf,       \* storage allocated by `new Uint8ClampedArray(data)` when it copies
  bytesRef,     \* which storage ctx.bytes / result.bytes refers to: "caller" or "own"
  pc,           \* position of the current parseEdid call
  warnings,     \* ctx.warnings
  baseBlock,    \* the decoded base block
  extensions,   \* parseExtensions: the `extensions` array
  extIndex,     \* parseExtensions: the loop variable
  context,      \* extensionContext (lastVideoBlock)
  result,       \* the object returned by the last completed call
  snapshot,     \* history: the caller's data as it was when the call started
  calls,        \* history: number of calls started so far
  probe         \* a single function under test: its input, scan state and output

vars == <<callerBuf, callerKind, ownBuf, bytesRef, pc, warnings, baseBlock,
          extensions, extIndex, context, result, snapshot, calls, probe>>

mainVars == <<callerBuf, callerKind, ownBuf, bytesRef, pc, warnings, baseBlock,
              extensions, extIndex, context, result, snapshot, calls>>

----------------------------------------------------------------------------
(* Bounds of the model *)

MaxCalls == 2        \* parseEdid calls in one behaviour
MaxExtBlocks == 2    \* extension blocks in a generated input
MaxDataBlocks == 3   \* data blocks in a generated Data Block Collection
MaxScanLength == 4   \* bytes of a collection scanned header by header

----------------------------------------------------------------------------
(* Program constants *)

EDID_BLOCK_LENGTH == 128
DTD_LENGTH == 18
SYNC_ANALOG_COMPOSITE == 0
SYNC_BIPOLAR_ANALOG_COMPOSITE == 1
SYNC_DIGITAL_COMPOSITE == 2
SYNC_DIGITAL_SEPARATE == 3
CTA_EXTENSION_TAG == 2
DISPLAYID_EXTENSION_TAG == 112

Undefined == -1

TAG_AUDIO == 1
TAG_VIDEO == 2
TAG_VENDOR_SPECIFIC == 3
TAG_SPEAKER_ALLOCATION == 4
TAG_EXTENDED_TAG == 7

EXT_YCBCR420_CAPABILITY_MAP == 15
EXT_HDR_STATIC_METADATA == 6
EXT_HDMI_FORUM_SCDB == 121
EXT_VENDOR_SPECIFIC_VIDEO == 1
EXT_HDR_DYNAMIC_METADATA == 7
EXT_VIDEO_CAPABILITY == 0
EXT_COLORIMETRY == 5
\* IEEE_OUI_TYPE: 0x90848b and 0x00d046
OUI_HDR10_PLUS == 9471115
OUI_DOLBY_VISION == 53318
\* IEEE_OUI_TYPE: 0x000c03 and 0xc45dd8
OUI_HDMI14 == 3075
OUI_HDMI_FORUM == 12869080

\* Number.NaN, as an element of a byte list
NaN == -2

EOTF_LABELS ==
  << "Traditional gamma - SDR luminance range",
     "Traditional gamma - HDR luminance range",
     "SMPTE ST2084 (PQ)",
     "Hybrid Log-Gamma (HLG)" >>

STATIC_METADATA_DESCRIPTORS == << "Static Metadata Type 1" >>

----------------------------------------------------------------------------
(* Arithmetic helpers for the code's bit operations *)

Pow2(n) == 2 ^ n

\* (x >> lo) & (2^n - 1)
Bits(x, lo, n) == (x \div Pow2(lo)) % Pow2(n)

\* x & (1 << i), as a truth value
BitSet(x, i) == Bits(x, i, 1) = 1

Min(a, b) == IF a < b THEN a ELSE b
Max(a, b) == IF a > b THEN a ELSE b

SeqOf(v, n) == [i \in 1..n |-> v]

\* s.slice(from, to) of a typed array (0-based, end exclusive, clipped)
Slice(s, from, to) ==
  LET hi == Min(to, Len(s))
  IN  IF from >= hi THEN << >> ELSE [i \in 1..(hi - from) |-> s[from + i]]

----------------------------------------------------------------------------
(* Byte reader *)

\* readU8: undefined outside [0, length), the byte otherwise
readU8(bytes, absoluteOffset) ==
  IF absoluteOffset < 0 \/ absoluteOffset >= Len(bytes)
    THEN Undefined
    ELSE bytes[absoluteOffset + 1]

\* createBlockReader(...).u8
u8(bytes, blockOffset, offset) == readU8(bytes, blockOffset + offset)

\* createBlockReader(...).u8OrZero
u8OrZero(bytes, blockOffset, offset) ==
  LET v == readU8(bytes, blockOffset + offset)
  IN  IF v = Undefined THEN 0 ELSE v

validateHeader_MissingAsZero(bytes) ==
  LET header == [i \in 1..8 |-> u8OrZero(bytes, 0, i - 1)]
  IN  /\ header[1] = 0
      /\ \A i \in 2..7 : header[i] = 255
      /\ header[8] = 0

validateHeader(bytes) ==
  LET header == [i \in 1..8 |-> u8(bytes, 0, i - 1)]
  IN  IF \E i \in 1..8 : header[i] = Undefined
        THEN FALSE
        ELSE /\ header[1] = 0
             /\ \A i \in 2..7 : header[i] = 255
             /\ header[8] = 0

----------------------------------------------------------------------------
(* Checksums *)

getChecksum(bytes, blockOffset) == u8OrZero(bytes, blockOffset, 127)

RECURSIVE SumLoop(_, _, _)
\* the loop of calcChecksum: for (index; index < endAddress; index++) checksum += ...
\* The sum is taken over the two halves of the range, which bounds the depth
\* of its evaluation.
SumLoop(bytes, index, endAddress) ==
  IF index >= endAddress THEN 0
  ELSE IF index + 1 = endAddress THEN bytes[index + 1]
  ELSE LET mid == (index + endAddress) \div 2
       IN  SumLoop(bytes, index, mid) + SumLoop(bytes, mid, endAddress)

calcChecksum(bytes, block) ==
  LET startAddress == block * EDID_BLOCK_LENGTH
      endAddress == startAddress + EDID_BLOCK_LENGTH - 1
  IN  IF Len(bytes) < endAddress + 1
        THEN Undefined
        ELSE 256 - (SumLoop(bytes, startAddress, endAddress) % 256)

validChecksum(bytes, block) ==
  LET checksumOffset == (block + 1) * EDID_BLOCK_LENGTH - 1
      checksum == readU8(bytes, checksumOffset)
      calculatedChecksum == calcChecksum(bytes, block)
  IN  IF checksum = Undefined THEN "undefined"
      ELSE IF calculatedChecksum = Undefined THEN "undefined"
      ELSE IF checksum = calculatedChecksum THEN "true" ELSE "false"

----------------------------------------------------------------------------
(* CTA-861 data blocks.  A data block is a record; `defined` is FALSE for  *)
(* the `undefined` entries the scan leaves in the collection.  Fields that *)
(* no checked property observes (audio descriptors, speaker layout, ...)   *)
(* are not carried.                                                        *)

UndefinedBlock == [defined |-> FALSE]

\* ExtensionParseContext: {} has no lastVideoBlock
EmptyContext == [lastVideoBlock |-> UndefinedBlock]

\* one Short Video Descriptor, as decoded in parseVideoDataBlock
ShortVideoDescriptor(dataByte) ==
  IF Bits(dataByte, 6, 1) > 0
    THEN [vic |-> dataByte % 256, isNativeResolution |-> FALSE]
    ELSE [vic |-> dataByte % 64, isNativeResolution |-> BitSet(dataByte, 7)]

RECURSIVE SvdLoop(_, _, _, _, _)
\* the while loop of parseVideoDataBlock
SvdLoop(bytes, blockOffset, startAddress, blockLength, index) ==
  IF index < blockLength
    THEN LET dataByte == u8(bytes, blockOffset, startAddress + index)
         IN  IF dataByte = Undefined
               THEN << >>
               ELSE << ShortVideoDescriptor(dataByte) >> \o
                    SvdLoop(bytes, blockOffset, startAddress, blockLength, index + 1)
    ELSE << >>

\* parseVideoDataBlock: the block it returns (it also becomes context.lastVideoBlock)
parseVideoDataBlock(bytes, blockOffset, startAddress, blockLength) ==
  [defined |-> TRUE, tag |-> TAG_VIDEO, dataLength |-> blockLength,
   shortVideoDescriptors |-> SvdLoop(bytes, blockOffset, startAddress, blockLength, 0)]

parseAudioDataBlock(bytes, blockOffset, startAddress, blockLength) ==
  [defined |-> TRUE, tag |-> TAG_AUDIO, dataLength |-> blockLength]

\* (b3 << 16) | (b2 << 8) | b1 of three bytes
PackOui(b1, b2, b3) == b3 * 65536 + b2 * 256 + b1

\* hdmiForumFeatures: absent, or an object whose flags are set or not set
NoForumFeatures ==
  [defined |-> FALSE, supportsQMS |-> FALSE, supportsCinemaVRR |-> FALSE,
   supportsNegativeMVRR |-> FALSE, supportsFastVActive |-> FALSE,
   supportsALLM |-> FALSE, supports16bpcCompressedVideo |-> FALSE,
   supports12bpcCompressedVideo |-> FALSE, supports10bpcCompressedVideo |-> FALSE]

\* vendorBlock.hdmiForumFeatures = {}
EmptyForumFeatures == [NoForumFeatures EXCEPT !.defined = TRUE]

\* the list `data` of the HDMI Forum decoders, 1-based: the block's bytes,
\* NaN for a byte the input does not hold
ForumData(bytes, blockOffset, startAddress, blockLength) ==
  [i \in 1..blockLength |->
     LET value == u8(bytes, blockOffset, startAddress + i - 1)
     IN  IF value = Undefined THEN NaN ELSE value]

\* data[index] ?? 0
DataByte(data, index) == IF index < Len(data) THEN data[index + 1] ELSE 0

\* the operand of a bitwise operator: NaN becomes 0
ToInt32(v) == IF v = NaN THEN 0 ELSE v

\* the flags both HDMI Forum decoders read from the feature byte
WithFeatureFlags(features, byte) ==
  [features EXCEPT !.supportsQMS = BitSet(ToInt32(byte), 6),
                   !.supportsCinemaVRR = BitSet(ToInt32(byte), 4),
                   !.supportsNegativeMVRR = BitSet(ToInt32(byte), 3),
                   !.supportsFastVActive = BitSet(ToInt32(byte), 2),
                   !.supportsALLM = BitSet(ToInt32(byte), 1)]

\* the flags both HDMI Forum decoders read from the compression byte
WithCompressionFlags(features, byte) ==
  [features EXCEPT !.supports16bpcCompressedVideo = BitSet(ToInt32(byte), 2),
                   !.supports12bpcCompressedVideo = BitSet(ToInt32(byte), 1),
                   !.supports10bpcCompressedVideo = BitSet(ToInt32(byte), 0)]

\* vrrMin and vrrMax of both HDMI Forum decoders; a value of 0 is not stored
VrrMinOf(lo) == LET vrrMin == Bits(ToInt32(lo), 0, 6) IN IF vrrMin > 0 THEN vrrMin ELSE Undefined

VrrMaxOf(lo, hi) ==
  LET vrrMax == Bits(ToInt32(lo), 6, 2) * 256 + ToInt32(hi)
  IN  IF vrrMax > 0 THEN vrrMax ELSE Undefined

\* the record parseVendorDataBlock allocates; absent optional fields hold
\* Undefined, FALSE or NoForumFeatures.  maxFixedRateLink holds the index of
\* the rate's label: 0 is 'Not Supported'.
NewVendorBlock(blockLength, ieeeOui) ==
  [defined |-> TRUE, tag |-> TAG_VENDOR_SPECIFIC, dataLength |-> blockLength,
   ieeeOui |-> ieeeOui, error |-> "",
   supportsDolbyVision |-> FALSE,
   supportsDeepColor48 |-> FALSE, supportsDeepColor36 |-> FALSE,
   supportsDeepColor30 |-> FALSE,
   supportsDeepColorY420_48 |-> FALSE, supportsDeepColorY420_36 |-> FALSE,
   supportsDeepColorY420_30 |-> FALSE,
   hfPayloadVersion |-> Undefined, hdmiForumFeatures |-> NoForumFeatures,
   maxFixedRateLink |-> Undefined, vrrMinHz |-> Undefined, vrrMaxHz |-> Undefined]

\* parseVendorDataBlockHDMI14: the deep-color flags of byte 6
parseVendorDataBlockHDMI14(bytes, blockOffset, startAddress, blockLength, vendorBlock) ==
  LET vsdbAddress == startAddress - 1
      flags == u8OrZero(bytes, blockOffset, vsdbAddress + 6)
  IN  IF blockLength >= 6
        THEN [vendorBlock EXCEPT !.supportsDeepColor48 = BitSet(flags, 6),
                                 !.supportsDeepColor36 = BitSet(flags, 5),
                                 !.supportsDeepColor30 = BitSet(flags, 4)]
        ELSE vendorBlock

\* parseVendorDataBlockHDMI20: the Y420 deep-color flags of byte 7
parseVendorDataBlockHDMI20(bytes, blockOffset, startAddress, blockLength, vendorBlock) ==
  LET vsdbAddress == startAddress - 1
      flags == u8OrZero(bytes, blockOffset, vsdbAddress + 7)
  IN  [vendorBlock EXCEPT !.supportsDeepColorY420_48 = BitSet(flags, 2),
                          !.supportsDeepColorY420_36 = BitSet(flags, 1),
                          !.supportsDeepColorY420_30 = BitSet(flags, 0)]

\* `if (blockLength > ...)` around the VRR range of both HDMI Forum decoders
WithVrrRange(block, present, lo, hi) ==
  IF present THEN [block EXCEPT !.vrrMinHz = VrrMinOf(lo), !.vrrMaxHz = VrrMaxOf(lo, hi)]
  ELSE block

\* `if (blockLength > ...)` around the compression flags of both decoders
WithCompression(block, present, byte) ==
  IF present THEN [block EXCEPT !.hdmiForumFeatures = WithCompressionFlags(@, byte)]
  ELSE block

\* the fixed-rate-link index and the feature flags of both decoders
WithLinkAndFeatures(block, present, linkByte, featureByte) ==
  IF present
    THEN [block EXCEPT !.maxFixedRateLink = Bits(ToInt32(linkByte), 4, 4),
                       !.hdmiForumFeatures = WithFeatureFlags(@, featureByte)]
    ELSE block

\* the part of parseVendorDataBlockHDMIForum after the length check
ForumFields(vendorBlock, data, blockLength) ==
  WithCompression(
    WithVrrRange(
      WithLinkAndFeatures([vendorBlock EXCEPT !.hfPayloadVersion = DataByte(data, 3)],
                          TRUE, DataByte(data, 6), DataByte(data, 7)),
      blockLength > 8, DataByte(data, 8), DataByte(data, 9)),
    blockLength > 10, DataByte(data, 10))

parseVendorDataBlockHDMIForum(bytes, blockOffset, startAddress, blockLength, vendorBlock) ==
  IF blockLength < 8
    THEN [vendorBlock EXCEPT !.hdmiForumFeatures = EmptyForumFeatures,
                             !.error = "HDMI Forum VSDB too short"]
    ELSE ForumFields([vendorBlock EXCEPT !.hdmiForumFeatures = EmptyForumFeatures],
                     ForumData(bytes, blockOffset, startAddress, blockLength),
                     blockLength)

\* parseVendorDataBlock: dispatch on the organisation identifier
parseVendorDataBlock(bytes, blockOffset, startAddress, blockLength) ==
  LET vsdbAddress == startAddress - 1
      ieeeOui == PackOui(u8OrZero(bytes, blockOffset, vsdbAddress + 1),
                         u8OrZero(bytes, blockOffset, vsdbAddress + 2),
                         u8OrZero(bytes, blockOffset, vsdbAddress + 3))
      vendorBlock == NewVendorBlock(blockLength, ieeeOui)
  IN  IF ieeeOui = OUI_DOLBY_VISION
        THEN [vendorBlock EXCEPT !.supportsDolbyVision = TRUE]
      ELSE IF ieeeOui = OUI_HDMI14
        THEN parseVendorDataBlockHDMI14(bytes, blockOffset, startAddress, blockLength,
                                        vendorBlock)
      ELSE IF ieeeOui = OUI_HDMI_FORUM
        THEN (IF blockLength >= 8
                THEN parseVendorDataBlockHDMIForum(bytes, blockOffset, startAddress,
                                                   blockLength, vendorBlock)
                ELSE parseVendorDataBlockHDMI20(bytes, blockOffset, startAddress,
                                                blockLength, vendorBlock))
      ELSE vendorBlock

parseSpeakerDataBlock(bytes, blockOffset, startAddress, blockLength) ==
  [defined |-> TRUE, tag |-> TAG_SPEAKER_ALLOCATION, dataLength |-> blockLength]

\* the record parseExtendedTagDataBlock allocates; absent optional fields
\* hold Undefined, << >> or FALSE ("not set")
NewExtendedTagBlock(blockLength) ==
  [defined |-> TRUE, tag |-> TAG_EXTENDED_TAG, dataLength |-> blockLength,
   extendedTag |-> Undefined, error |-> "",
   supportedEOTFs |-> << >>, hasSupportedEOTFs |-> FALSE,
   supportedStaticMetadataDescriptors |-> << >>,
   desiredContentMaxLuminanceCode |-> Undefined,
   desiredContentMaxFrameAverageLuminanceCode |-> Undefined,
   desiredContentMinLuminanceCode |-> Undefined,
   supportsHDR10 |-> FALSE,
   supportsHDR10Plus |-> FALSE, supportsDolbyVision |-> FALSE,
   vendorSpecificVideoOui |-> Undefined,
   supportedDynamicMetadataTypes |-> << >>,
   dynamicHdrMetadataTypeId |-> Undefined,
   dynamicHdrMetadataVersionNumber |-> Undefined,
   hasCapableSvds |-> FALSE, YCbCr420CapableShortVideoDescriptors |-> << >>,
   supportsQMS |-> FALSE, supportsVRR |-> FALSE, supportsCinemaVRR |-> FALSE,
   supportsNegativeMRR |-> FALSE, supportsFVA |-> FALSE, supportsALLM |-> FALSE,
   supportsBT2020RGB |-> FALSE, supportsBT2020YCC |-> FALSE,
   supportsBT2020cYCC |-> FALSE, supportsAdobeRGB |-> FALSE,
   hdmiForumFeatures |-> NoForumFeatures, maxFixedRateLink |-> Undefined,
   vrrMinHz |-> Undefined, vrrMaxHz |-> Undefined]

\* the labels of `labels` whose bit is set in `byte`, in index order
RECURSIVE LabelsOf(_, _, _)
LabelsOf(byte, labels, i) ==
  IF i >= Len(labels) THEN << >>
  ELSE (IF BitSet(byte, i) THEN << labels[i + 1] >> ELSE << >>)
       \o LabelsOf(byte, labels, i + 1)

Includes(s, x) == \E i \in 1..Len(s) : s[i] = x

HasPqEotf_NoCheck(supportedEOTFs) == TRUE

\* hasPqEotf of parseHDRStaticMetadataDataBlock
HasPqEotf(supportedEOTFs) == Includes(supportedEOTFs, "SMPTE ST2084 (PQ)")

\* hasStaticType1 of parseHDRStaticMetadataDataBlock
HasStaticType1(descriptors) == Includes(descriptors, "Static Metadata Type 1")

parseHDRStaticMetadataDataBlock(bytes, blockOffset, startAddress, blockLength, blk) ==
  LET b0 == [blk EXCEPT !.extendedTag = EXT_HDR_STATIC_METADATA]
  IN  IF blockLength < 2 THEN [b0 EXCEPT !.error = "Empty Data Block"]
      ELSE
        LET eotfByte == u8OrZero(bytes, blockOffset, startAddress + 1)
            eotfs == LabelsOf(eotfByte, EOTF_LABELS, 0)
            descs == IF blockLength > 2
                       THEN LabelsOf(u8OrZero(bytes, blockOffset, startAddress + 2),
                                     STATIC_METADATA_DESCRIPTORS, 0)
                       ELSE << >>
            maxLum == IF blockLength >= 4
                        THEN u8(bytes, blockOffset, startAddress + 3) ELSE Undefined
            maxAvg == IF blockLength >= 4
                        THEN u8(bytes, blockOffset, startAddress + 4) ELSE Undefined
            minLum == IF blockLength >= 5
                        THEN u8(bytes, blockOffset, startAddress + 5) ELSE Undefined
        IN  [b0 EXCEPT !.supportedEOTFs = eotfs,
                       !.hasSupportedEOTFs = TRUE,
                       !.supportedStaticMetadataDescriptors = descs,
                       !.desiredContentMaxLuminanceCode = maxLum,
                       !.desiredContentMaxFrameAverageLuminanceCode = maxAvg,
                       !.desiredContentMinLuminanceCode = minLum,
                       !.supportsHDR10 = HasPqEotf(eotfs) /\ HasStaticType1(descs)]

parseVendorSpecificVideoDataBlock(bytes, blockOffset, startAddress, blockLength, blk) ==
  LET b0 == [blk EXCEPT !.extendedTag = EXT_VENDOR_SPECIFIC_VIDEO]
  IN  IF blockLength < 4
        THEN [b0 EXCEPT !.error = "Vendor-Specific Video Data Block too short"]
      ELSE
        LET oui == PackOui(u8OrZero(bytes, blockOffset, startAddress + 1),
                           u8OrZero(bytes, blockOffset, startAddress + 2),
                           u8OrZero(bytes, blockOffset, startAddress + 3))
        IN  [b0 EXCEPT !.vendorSpecificVideoOui = oui,
                       !.supportsHDR10Plus = (oui = OUI_HDR10_PLUS),
                       !.supportsDolbyVision = (oui = OUI_DOLBY_VISION)]

\* the label pushed for a metadata type id; none outside 1..4
DynamicMetadataLabels(metadataType) ==
  IF metadataType = 1 THEN << "SMPTE ST 2094-10" >>
  ELSE IF metadataType = 2 THEN << "SMPTE ST 2094-20" >>
  ELSE IF metadataType = 3 THEN << "SMPTE ST 2094-30" >>
  ELSE IF metadataType = 4 THEN << "SMPTE ST 2094-40" >>
  ELSE << >>

parseHDRDynamicMetadataDataBlock_InfersFormat(bytes, blockOffset, startAddress, blockLength, blk) ==
  LET b0 == [blk EXCEPT !.extendedTag = EXT_HDR_DYNAMIC_METADATA]
      metadataType == u8OrZero(bytes, blockOffset, startAddress + 1)
  IN  IF blockLength < 3 THEN [b0 EXCEPT !.error = "Data Block too short"]
      ELSE [b0 EXCEPT !.supportedDynamicMetadataTypes = DynamicMetadataLabels(metadataType),
                      !.dynamicHdrMetadataTypeId = metadataType,
                      !.supportsDolbyVision = (metadataType = 1),
                      !.supportsHDR10Plus = (metadataType = 4),
                      !.dynamicHdrMetadataVersionNumber =
                          u8OrZero(bytes, blockOffset, startAddress + 2)]

parseHDRDynamicMetadataDataBlock(bytes, blockOffset, startAddress, blockLength, blk) ==
  LET b0 == [blk EXCEPT !.extendedTag = EXT_HDR_DYNAMIC_METADATA]
      metadataType == u8OrZero(bytes, blockOffset, startAddress + 1)
  IN  IF blockLength < 3 THEN [b0 EXCEPT !.error = "Data Block too short"]
      ELSE [b0 EXCEPT !.supportedDynamicMetadataTypes = DynamicMetadataLabels(metadataType),
                      !.dynamicHdrMetadataTypeId = metadataType,
                      !.dynamicHdrMetadataVersionNumber =
                          u8OrZero(bytes, blockOffset, startAddress + 2)]

\* shortVideoDescriptors[svdIndex] of a JavaScript array: undefined past the end
UndefinedSvd == [vic |-> Undefined, isNativeResolution |-> FALSE]
SvdAt(svds, svdIndex) ==
  IF svdIndex < Len(svds) THEN svds[svdIndex + 1] ELSE UndefinedSvd

RECURSIVE CapabilityLoop(_, _, _, _, _, _)
\* the nested loops of parseYCbCr420CapabilityMapDataBlock; FIELD_ADDRESS = k
CapabilityLoop(bytes, blockOffset, startAddress, blockLength, svds, k) ==
  IF k < blockLength
    THEN LET dataByte == u8(bytes, blockOffset, startAddress + k)
             base == 8 * (k - 1)
             RECURSIVE Pick(_)
             Pick(j) == IF j > 7 THEN << >>
                        ELSE (IF BitSet(dataByte, j)
                                THEN << SvdAt(svds, base + j) >> ELSE << >>)
                             \o Pick(j + 1)
         IN  IF dataByte = Undefined
               THEN << >>
               ELSE Pick(0) \o CapabilityLoop(bytes, blockOffset, startAddress,
                                              blockLength, svds, k + 1)
    ELSE << >>

parseYCbCr420CapabilityMapDataBlock(bytes, blockOffset, startAddress, blockLength, blk, ctx) ==
  LET b0 == [blk EXCEPT !.extendedTag = EXT_YCBCR420_CAPABILITY_MAP]
      videoBlock == ctx.lastVideoBlock
  IN  IF ~videoBlock.defined THEN b0
      ELSE [b0 EXCEPT !.hasCapableSvds = TRUE,
                      !.YCbCr420CapableShortVideoDescriptors =
                          CapabilityLoop(bytes, blockOffset, startAddress, blockLength,
                                         videoBlock.shortVideoDescriptors, 1)]

\* parseVideoCapabilityDataBlock: the flags of byte 2
parseVideoCapabilityDataBlock(bytes, blockOffset, startAddress, blockLength, blk) ==
  LET b0 == [blk EXCEPT !.extendedTag = EXT_VIDEO_CAPABILITY]
      flags == u8OrZero(bytes, blockOffset, startAddress + 2)
  IN  IF blockLength > 2
        THEN [b0 EXCEPT !.supportsQMS = BitSet(flags, 7),
                        !.supportsVRR = BitSet(flags, 6),
                        !.supportsCinemaVRR = BitSet(flags, 5),
                        !.supportsNegativeMRR = BitSet(flags, 4),
                        !.supportsFVA = BitSet(flags, 3),
                        !.supportsALLM = BitSet(flags, 2)]
        ELSE b0

\* parseColorimetryDataBlock: the gamut flags of byte 1
parseColorimetryDataBlock(bytes, blockOffset, startAddress, blockLength, blk) ==
  LET flags == u8OrZero(bytes, blockOffset, startAddress + 1)
  IN  [blk EXCEPT !.extendedTag = EXT_COLORIMETRY,
                  !.supportsBT2020RGB = BitSet(flags, 7),
                  !.supportsBT2020YCC = BitSet(flags, 6),
                  !.supportsBT2020cYCC = BitSet(flags, 5),
                  !.supportsAdobeRGB = BitSet(flags, 4)]

\* the part of parseHDMIForumSCDB after the length check
ScdbFields(blk, data, blockLength) ==
  WithCompression(
    WithVrrRange(
      WithLinkAndFeatures([blk EXCEPT !.hdmiForumFeatures = EmptyForumFeatures],
                          blockLength > 4, DataByte(data, 4), DataByte(data, 5)),
      blockLength > 6, DataByte(data, 6), DataByte(data, 7)),
    blockLength > 8, DataByte(data, 8))

parseHDMIForumSCDB(bytes, blockOffset, startAddress, blockLength, blk) ==
  IF blockLength < 3
    THEN [blk EXCEPT !.extendedTag = EXT_HDMI_FORUM_SCDB,
                     !.error = "HDMI Forum SCDB too short"]
    ELSE ScdbFields([blk EXCEPT !.extendedTag = EXT_HDMI_FORUM_SCDB],
                    ForumData(bytes, blockOffset, startAddress, blockLength),
                    blockLength)

\* parseExtendedTagDataBlock: dispatch on the extended tag code.  The other
\* sub-decoders set extendedTag to the code they were dispatched on, exactly
\* as the unknown-tag fallback does.
parseExtendedTagDataBlock(bytes, blockOffset, startAddress, blockLength, ctx) ==
  LET blk == NewExtendedTagBlock(blockLength)
      extendedBlockTagCode == u8OrZero(bytes, blockOffset, startAddress)
  IN  IF extendedBlockTagCode = EXT_VIDEO_CAPABILITY
        THEN parseVideoCapabilityDataBlock(bytes, blockOffset, startAddress,
                                           blockLength, blk)
      ELSE IF extendedBlockTagCode = EXT_VENDOR_SPECIFIC_VIDEO
        THEN parseVendorSpecificVideoDataBlock(bytes, blockOffset, startAddress,
                                               blockLength, blk)
      ELSE IF extendedBlockTagCode = EXT_COLORIMETRY
        THEN parseColorimetryDataBlock(bytes, blockOffset, startAddress,
                                       blockLength, blk)
      ELSE IF extendedBlockTagCode = EXT_YCBCR420_CAPABILITY_MAP
        THEN parseYCbCr420CapabilityMapDataBlock(bytes, blockOffset, startAddress,
                                                 blockLength, blk, ctx)
      ELSE IF extendedBlockTagCode = EXT_HDR_STATIC_METADATA
        THEN parseHDRStaticMetadataDataBlock(bytes, blockOffset, startAddress,
                                             blockLength, blk)
      ELSE IF extendedBlockTagCode = EXT_HDR_DYNAMIC_METADATA
        THEN parseHDRDynamicMetadataDataBlock(bytes, blockOffset, startAddress,
                                              blockLength, blk)
      ELSE IF extendedBlockTagCode = EXT_HDMI_FORUM_SCDB
        THEN parseHDMIForumSCDB(bytes, blockOffset, startAddress, blockLength, blk)
      ELSE [blk EXCEPT !.extendedTag = extendedBlockTagCode]

isExtendedTagBlock(block) == block.defined /\ block.tag = TAG_EXTENDED_TAG
isVendorBlock(block) == block.defined /\ block.tag = TAG_VENDOR_SPECIFIC
isVideoBlock(block) == block.defined /\ block.tag = TAG_VIDEO

----------------------------------------------------------------------------
(* parseDataBlockCollection.  The scan state holds the loop variable       *)
(* `index`, the collection built so far, the position of primaryVideoBlock *)
(* in the collection (0: none yet), the extension context and the warnings *)
(* the scan has emitted.                                                   *)

START_DATA_BLOCK == 4

Warning(code, blockIndex, offset) ==
  [code |-> code, blockIndex |-> blockIndex, offset |-> offset]

ScanInit(ctx) ==
  [index |-> START_DATA_BLOCK, coll |-> << >>, primaryIdx |-> 0,
   ctx |-> ctx, warns |-> << >>]

MergeVideoBlocks_KeepLast(primaryVideoBlock, parsedVideoBlock) ==
  [primaryVideoBlock EXCEPT
     !.shortVideoDescriptors = parsedVideoBlock.shortVideoDescriptors,
     !.dataLength = @ + parsedVideoBlock.dataLength]

\* the else-branch of the VIDEO case: primaryVideoBlock after the push
MergeVideoBlocks(primaryVideoBlock, parsedVideoBlock) ==
  [primaryVideoBlock EXCEPT
     !.shortVideoDescriptors = @ \o parsedVideoBlock.shortVideoDescriptors,
     !.dataLength = @ + parsedVideoBlock.dataLength]

\* one iteration of the primary while loop, for a header byte that is defined
ScanStep(bytes, blockOffset, blockIndex, st) ==
  LET index == st.index
      headerByte == u8(bytes, blockOffset, index)
      blockTagCode == Bits(headerByte, 5, 3)
      blockLength == Bits(headerByte, 0, 5)
      next == index + blockLength + 1
  IN  IF blockTagCode = TAG_AUDIO THEN
        [st EXCEPT !.index = next,
           !.coll = Append(@, parseAudioDataBlock(bytes, blockOffset, index + 1, blockLength))]
      ELSE IF blockTagCode = TAG_VIDEO THEN
        LET parsedVideoBlock ==
              parseVideoDataBlock(bytes, blockOffset, index + 1, blockLength)
        IN  IF st.primaryIdx = 0
              THEN [st EXCEPT !.index = next,
                      !.coll = Append(@, parsedVideoBlock),
                      !.primaryIdx = Len(st.coll) + 1,
                      !.ctx = [lastVideoBlock |-> parsedVideoBlock]]
              ELSE LET merged == MergeVideoBlocks(st.coll[st.primaryIdx], parsedVideoBlock)
                   IN  [st EXCEPT !.index = next,
                          !.coll = Append([@ EXCEPT ![st.primaryIdx] = merged],
                                          UndefinedBlock),
                          !.ctx = [lastVideoBlock |-> merged]]
      ELSE IF blockTagCode = TAG_VENDOR_SPECIFIC THEN
        [st EXCEPT !.index = next,
           !.coll = Append(@, parseVendorDataBlock(bytes, blockOffset, index + 1, blockLength))]
      ELSE IF blockTagCode = TAG_SPEAKER_ALLOCATION THEN
        [st EXCEPT !.index = next,
           !.coll = Append(@, parseSpeakerDataBlock(bytes, blockOffset, index + 1, blockLength))]
      ELSE IF blockTagCode = TAG_EXTENDED_TAG THEN
        [st EXCEPT !.index = next,
           !.coll = Append(@, parseExtendedTagDataBlock(bytes, blockOffset, index + 1,
                                                        blockLength, st.ctx))]
      ELSE
        [st EXCEPT !.index = next,
           !.coll = Append(@, UndefinedBlock),
           !.warns = Append(@, Warning("unknown_data_block", blockIndex, index))]

ScanContinues_NoEndCheck(bytes, blockOffset, endAddress, st) ==
  u8(bytes, blockOffset, st.index) # Undefined

\* the loop condition of the primary scan, including the break on a missing header
ScanContinues(bytes, blockOffset, endAddress, st) ==
  /\ st.index < endAddress
  /\ u8(bytes, blockOffset, st.index) # Undefined

RECURSIVE ScanLoop(_, _, _, _, _)
ScanLoop(bytes, blockOffset, blockIndex, endAddress, st) ==
  IF ScanContinues(bytes, blockOffset, endAddress, st)
    THEN ScanLoop(bytes, blockOffset, blockIndex, endAddress,
                  ScanStep(bytes, blockOffset, blockIndex, st))
    ELSE st

HasScdb(coll) ==
  \E i \in 1..Len(coll) :
    isExtendedTagBlock(coll[i]) /\ coll[i].extendedTag = EXT_HDMI_FORUM_SCDB

\* the offsets at which the recovery loop would stop and decode an SCDB
RecoveryCandidates(bytes, blockOffset, startAddress, endAddress) ==
  { scanIndex \in startAddress..(endAddress - 1) :
      LET headerByte == u8(bytes, blockOffset, scanIndex)
          blockLength == Bits(headerByte, 0, 5)
      IN  /\ headerByte # Undefined
          /\ Bits(headerByte, 5, 3) = TAG_EXTENDED_TAG
          /\ blockLength # 0
          /\ scanIndex + 1 + blockLength <= endAddress
          /\ u8OrZero(bytes, blockOffset, scanIndex + 1) = EXT_HDMI_FORUM_SCDB }

SetMin(S) == CHOOSE x \in S : \A y \in S : x <= y

\* the recovery scan that follows the primary scan
RecoveryScan(bytes, blockOffset, startAddress, endAddress, st) ==
  IF HasScdb(st.coll) THEN st
  ELSE LET cands == RecoveryCandidates(bytes, blockOffset, startAddress, endAddress)
       IN  IF cands = {} THEN st
           ELSE LET scanIndex == SetMin(cands)
                    blockLength == Bits(u8(bytes, blockOffset, scanIndex), 0, 5)
                IN  [st EXCEPT !.coll =
                       Append(@, parseExtendedTagDataBlock(bytes, blockOffset,
                                   scanIndex + 1, blockLength, st.ctx))]

\* parseDataBlockCollection: the collection, the context and the warnings
parseDataBlockCollection(bytes, blockOffset, blockIndex, dtdStart, ctx) ==
  LET dataBlockLength == dtdStart - START_DATA_BLOCK
      endAddress == START_DATA_BLOCK + dataBlockLength
  IN  IF dataBlockLength < 0
        THEN [ScanInit(ctx) EXCEPT
                !.warns = << Warning("parse_error", blockIndex, START_DATA_BLOCK) >>]
        ELSE RecoveryScan(bytes, blockOffset, START_DATA_BLOCK, endAddress,
                          ScanLoop(bytes, blockOffset, blockIndex, endAddress,
                                   ScanInit(ctx)))

----------------------------------------------------------------------------
(* Detailed timing descriptors.  Of a descriptor's fields, the pixel       *)
(* clock (in units of 10 kHz, before the division by 100), the active      *)
(* pixel counts, the border sizes and the fields decoded from byte 17 are  *)
(* carried.  A boolean field that is not assigned holds "undefined".       *)
(* dtdOffset and lastOffset record the block-relative offsets of the first *)
(* and the last byte parseDtd reads.                                       *)

Bool3(b) == IF b THEN "true" ELSE "false"

VSyncFields_AlwaysSerrated(syncTypeCode, flags) ==
  [vSyncPolarity |-> IF syncTypeCode = SYNC_DIGITAL_SEPARATE
                       THEN Bool3(BitSet(flags, 2)) ELSE "undefined",
   vSyncSerrated |-> Bool3(BitSet(flags, 2))]

\* the first if/else on syncTypeCode
VSyncFields(syncTypeCode, flags) ==
  IF syncTypeCode = SYNC_DIGITAL_SEPARATE
    THEN [vSyncPolarity |-> Bool3(BitSet(flags, 2)), vSyncSerrated |-> "undefined"]
    ELSE [vSyncPolarity |-> "undefined", vSyncSerrated |-> Bool3(BitSet(flags, 2))]

\* the second if/else on syncTypeCode
HSyncFields(syncTypeCode, flags) ==
  IF syncTypeCode = SYNC_ANALOG_COMPOSITE \/ syncTypeCode = SYNC_BIPOLAR_ANALOG_COMPOSITE
    THEN [syncAllRGBLines |-> Bool3(BitSet(flags, 1)), hSyncPolarity |-> "undefined"]
    ELSE [syncAllRGBLines |-> "undefined", hSyncPolarity |-> Bool3(BitSet(flags, 1))]

UndefinedDtd == [defined |-> FALSE]

parseDtd(bytes, blockOffset, dtdOffset) ==
  LET pixelClockLo == u8(bytes, blockOffset, dtdOffset)
      pixelClockHi == u8(bytes, blockOffset, dtdOffset + 1)
      flags == u8OrZero(bytes, blockOffset, dtdOffset + 17)
      syncTypeCode == Bits(flags, 3, 2)
      v == VSyncFields(syncTypeCode, flags)
      h == HSyncFields(syncTypeCode, flags)
  IN  IF pixelClockLo = Undefined \/ pixelClockHi = Undefined THEN UndefinedDtd
      ELSE [defined |-> TRUE,
            dtdOffset |-> dtdOffset, lastOffset |-> dtdOffset + 17,
            pixelClock10kHz |-> pixelClockHi * 256 + pixelClockLo,
            horizontalActivePixels |->
              Bits(u8OrZero(bytes, blockOffset, dtdOffset + 4), 4, 4) * 256
                + u8OrZero(bytes, blockOffset, dtdOffset + 2),
            verticalActivePixels |->
              Bits(u8OrZero(bytes, blockOffset, dtdOffset + 7), 4, 4) * 256
                + u8OrZero(bytes, blockOffset, dtdOffset + 5),
            horizontalBlankLineCount |->
              Bits(u8OrZero(bytes, blockOffset, dtdOffset + 4), 0, 4) * 256
                + u8OrZero(bytes, blockOffset, dtdOffset + 3),
            verticalBlankLineCount |->
              Bits(u8OrZero(bytes, blockOffset, dtdOffset + 7), 0, 4) * 256
                + u8OrZero(bytes, blockOffset, dtdOffset + 6),
            horizontalDisplaySizeInMm |->
              Bits(u8OrZero(bytes, blockOffset, dtdOffset + 14), 4, 4) * 256
                + u8OrZero(bytes, blockOffset, dtdOffset + 12),
            verticalDisplaySizeInMm |->
              Bits(u8OrZero(bytes, blockOffset, dtdOffset + 14), 0, 4) * 256
                + u8OrZero(bytes, blockOffset, dtdOffset + 13),
            horizontalBorderPixels |-> u8OrZero(bytes, blockOffset, dtdOffset + 15),
            verticalBorderLines |-> u8OrZero(bytes, blockOffset, dtdOffset + 16),
            isInterlaced |-> BitSet(flags, 7),
            stereoModeCode |-> Bits(flags, 5, 2),
            syncTypeCode |-> syncTypeCode,
            vSyncPolarity |-> v.vSyncPolarity,
            vSyncSerrated |-> v.vSyncSerrated,
            syncAllRGBLines |-> h.syncAllRGBLines,
            hSyncPolarity |-> h.hSyncPolarity,
            twoWayStereo |-> BitSet(flags, 0)]

RECURSIVE DtdLoop(_, _, _, _)
\* while (dtdIndex < endOffset): a missing or all-zero pixel clock ends the loop
DtdLoop(bytes, blockOffset, dtdIndex, endOffset) ==
  IF dtdIndex < endOffset
    THEN LET lo == u8(bytes, blockOffset, dtdIndex)
             hi == u8(bytes, blockOffset, dtdIndex + 1)
             dtd == parseDtd(bytes, blockOffset, dtdIndex)
         IN  IF lo = Undefined \/ hi = Undefined THEN << >>
             ELSE IF lo = 0 /\ hi = 0 THEN << >>
             ELSE (IF dtd.defined THEN << dtd >> ELSE << >>)
                  \o DtdLoop(bytes, blockOffset, dtdIndex + DTD_LENGTH, endOffset)
    ELSE << >>

getDtds(bytes, blockOffset, startOffset, endOffset) ==
  DtdLoop(bytes, blockOffset, startOffset, endOffset)

----------------------------------------------------------------------------
(* Extension blocks.  An operator returns the extension record, the        *)
(* context after the block and the warnings the block's decode emitted.    *)

ExtensionRecord(bytes, extIdx, type) ==
  LET blockOffset == EDID_BLOCK_LENGTH * (extIdx + 1)
      flags == u8OrZero(bytes, blockOffset, 3)
      cta == type # "displayid"
  IN  [blockNumber |-> extIdx + 1,
       extTagByte |-> u8OrZero(bytes, blockOffset, 0),
       revisionNumber |-> u8OrZero(bytes, blockOffset, 1),
       dtdStart |-> IF cta THEN u8OrZero(bytes, blockOffset, 2)
                    ELSE Min(127, 5 + u8OrZero(bytes, blockOffset, 2)),
       numDtds |-> IF cta THEN Bits(flags, 0, 4) ELSE 0,
       supportsUnderscan |-> cta /\ BitSet(flags, 7),
       supportsBasicAudio |-> cta /\ BitSet(flags, 6),
       supportsYCbCr444 |-> cta /\ BitSet(flags, 5),
       supportsYCbCr422 |-> cta /\ BitSet(flags, 4),
       extensionType |-> type,
       hasDataBlockCollection |-> FALSE,
       dataBlockCollection |-> << >>,
       dtds |-> << >>,
       checksum |-> u8OrZero(bytes, blockOffset, 127),
       isChecksumValid |-> validChecksum(bytes, extIdx + 1),
       rawBytes |-> Slice(bytes, blockOffset, blockOffset + EDID_BLOCK_LENGTH)]

parseCtaExtension(bytes, extIdx, ctx) ==
  LET blockOffset == EDID_BLOCK_LENGTH * (extIdx + 1)
      ext == ExtensionRecord(bytes, extIdx, "cta-861")
      dtds == getDtds(bytes, blockOffset, ext.dtdStart, 126)
  IN  IF ext.dtdStart # 4
        THEN LET dbc == parseDataBlockCollection(bytes, blockOffset, extIdx + 1,
                                                 ext.dtdStart, ctx)
             IN  [ext |-> [ext EXCEPT !.hasDataBlockCollection = TRUE,
                                      !.dataBlockCollection = dbc.coll,
                                      !.dtds = dtds],
                  ctx |-> dbc.ctx, warns |-> dbc.warns]
        ELSE [ext |-> [ext EXCEPT !.dtds = dtds], ctx |-> ctx, warns |-> << >>]

parseDisplayIdExtension(bytes, extIdx, ctx) ==
  [ext |-> ExtensionRecord(bytes, extIdx, "displayid"), ctx |-> ctx, warns |-> << >>]

parseUnknownExtension(bytes, extIdx, ctx) ==
  [ext |-> ExtensionRecord(bytes, extIdx, "unknown"), ctx |-> ctx,
   warns |-> << Warning("unknown_extension_tag", extIdx + 1, 0) >>]

\* the body of the for loop of parseExtensions, for a tag byte that is defined
parseExtensionBlock(bytes, extIdx, ctx) ==
  LET extTag == u8(bytes, EDID_BLOCK_LENGTH * (extIdx + 1), 0)
  IN  IF extTag = CTA_EXTENSION_TAG THEN parseCtaExtension(bytes, extIdx, ctx)
      ELSE IF extTag = DISPLAYID_EXTENSION_TAG
        THEN parseDisplayIdExtension(bytes, extIdx, ctx)
      ELSE parseUnknownExtension(bytes, extIdx, ctx)

----------------------------------------------------------------------------
(* Base block.  Of the base block's fields, the vendor id, serial number, *)
(* chromaticity, standard display modes, DTDs, header, version, extension  *)
(* count, checksum and raw bytes are carried.                              *)

\* '0ABCDEFGHIJKLMNOPQRSTUVWXYZ'.split(''); a string is the sequence of its
\* characters
abc ==
  << "0", "A", "B", "C", "D", "E", "F", "G", "H", "I", "J", "K", "L", "M",
     "N", "O", "P", "Q", "R", "S", "T", "U", "V", "W", "X", "Y", "Z" >>

intToAscii_NoZero(intCode) ==
  IF intCode + 2 <= Len(abc) THEN << abc[intCode + 2] >> ELSE << >>

\* abc[intCode] ?? ''
intToAscii(intCode) ==
  IF intCode < Len(abc) THEN << abc[intCode + 1] >> ELSE << >>

getVendorId(bytes) ==
  LET byte1 == u8OrZero(bytes, 0, 8)
      byte2 == u8OrZero(bytes, 0, 9)
      firstLetter == Bits(byte1, 2, 5)
      secondLetterTop == Bits(byte1, 0, 2)
      secondLetterBottom == Bits(byte2, 5, 3)
      secondLetter == secondLetterTop * 8 + secondLetterBottom
      thirdLetter == Bits(byte2, 0, 5)
  IN  intToAscii(firstLetter) \o intToAscii(secondLetter) \o intToAscii(thirdLetter)

STD_DISPLAY_MODES_START == 38
STD_DISPLAY_MODES_END == 53

\* byte1 !== 0x01 && byte2 !== 0x01
SlotIsDecoded(byte1, byte2) == byte1 # 1 /\ byte2 # 1

StandardDisplayMode(byte1, byte2) ==
  [xResolutionPx |-> (byte1 + 31) * 8,
   xyPixelRatio |-> Bits(byte2, 6, 2),
   vertFreqHz |-> Bits(byte2, 0, 6) + 60]

RECURSIVE StdModeLoop(_, _)
\* while (index < STD_DISPLAY_MODES_END): a missing byte ends the loop
StdModeLoop(bytes, index) ==
  IF index < STD_DISPLAY_MODES_END
    THEN LET byte1 == u8(bytes, 0, index)
             byte2 == u8(bytes, 0, index + 1)
         IN  IF byte1 = Undefined \/ byte2 = Undefined THEN << >>
             ELSE (IF SlotIsDecoded(byte1, byte2)
                     THEN << StandardDisplayMode(byte1, byte2) >> ELSE << >>)
                  \o StdModeLoop(bytes, index + 2)
    ELSE << >>

getStandardDisplayModes(bytes) == StdModeLoop(bytes, STD_DISPLAY_MODES_START)

getNumberExtensions(bytes) == u8OrZero(bytes, 0, 126)

\* getBasicDisplayParams: the two flags of byte 24 the summary reads
getBasicDisplayParams(bytes) ==
  LET supportedFeatures == u8OrZero(bytes, 0, 24)
  IN  [isStandardSRgb |-> BitSet(supportedFeatures, 2),
       isPreferredTiming |-> BitSet(supportedFeatures, 1)]

\* getChromaticityCoordinates: the 10-bit red, green and blue values; the
\* ...Coords fields are these values divided by 1024
getChromaticityCoordinates(bytes) ==
  LET redGreenLsb == u8OrZero(bytes, 0, 25)
      blueWhiteLsb == u8OrZero(bytes, 0, 26)
  IN  [redX |-> u8OrZero(bytes, 0, 27) * 4 + Bits(redGreenLsb, 6, 2),
       redY |-> u8OrZero(bytes, 0, 28) * 4 + Bits(redGreenLsb, 4, 2),
       greenX |-> u8OrZero(bytes, 0, 29) * 4 + Bits(redGreenLsb, 2, 2),
       greenY |-> u8OrZero(bytes, 0, 30) * 4 + Bits(redGreenLsb, 0, 2),
       blueX |-> u8OrZero(bytes, 0, 31) * 4 + Bits(blueWhiteLsb, 6, 2),
       blueY |-> u8OrZero(bytes, 0, 32) * 4 + Bits(blueWhiteLsb, 4, 2)]

\* Math.round(n / d) for n >= 0, d > 0
RoundDiv(n, d) == (2 * n + d) \div (2 * d)

UndefinedResolution == [defined |-> FALSE, refreshRateHz |-> Undefined]

\* getNativeResolution: the refresh rate of the preferred DTD; the pixel
\* clock is in units of 10 kHz
getNativeResolution(dtds, basicDisplayParams) ==
  IF ~basicDisplayParams.isPreferredTiming \/ Len(dtds) = 0 THEN UndefinedResolution
  ELSE LET preferredDtd == dtds[1]
           horizontalTotal ==
             preferredDtd.horizontalActivePixels + preferredDtd.horizontalBlankLineCount
           verticalTotal ==
             preferredDtd.verticalActivePixels + preferredDtd.verticalBlankLineCount
       IN  IF \/ preferredDtd.horizontalActivePixels = 0
              \/ preferredDtd.verticalActivePixels = 0
              \/ preferredDtd.horizontalDisplaySizeInMm = 0
              \/ preferredDtd.verticalDisplaySizeInMm = 0
              \/ preferredDtd.pixelClock10kHz = 0
             THEN UndefinedResolution
           ELSE IF horizontalTotal = 0 \/ verticalTotal = 0 THEN UndefinedResolution
           ELSE [defined |-> TRUE,
                 refreshRateHz |-> RoundDiv(preferredDtd.pixelClock10kHz * 10000,
                                            horizontalTotal * verticalTotal)]

\* byte << 24 as a 32-bit signed integer: bit 7 of the byte becomes the sign
ShiftLeft24(byte) ==
  IF byte >= 128 THEN (byte - 256) * Pow2(24) ELSE byte * Pow2(24)

\* getSerialNumberInt: the operands of | have no bit in common, so | adds
getSerialNumberInt(bytes) ==
  ShiftLeft24(u8OrZero(bytes, 0, 15))
    + u8OrZero(bytes, 0, 14) * Pow2(16)
    + u8OrZero(bytes, 0, 13) * Pow2(8)
    + u8OrZero(bytes, 0, 12)

parseBaseBlock(bytes) ==
  LET edidVersion == u8OrZero(bytes, 0, 18)
      edidRevision == u8OrZero(bytes, 0, 19)
      dtds == getDtds(bytes, 0, 54, 126)
      basicDisplayParams == getBasicDisplayParams(bytes)
  IN  [basicDisplayParams |-> basicDisplayParams,
       nativeResolution |-> getNativeResolution(dtds, basicDisplayParams),
       baseBlock |->
         [vendorId |-> getVendorId(bytes),
          chromaticity |-> getChromaticityCoordinates(bytes),
          serialNumberInt |-> getSerialNumberInt(bytes),
          rawBytes |-> Slice(bytes, 0, EDID_BLOCK_LENGTH),
          standardDisplayModes |-> getStandardDisplayModes(bytes),
          dtds |-> dtds,
          isHeaderValid |-> validateHeader(bytes),
          edidVersion |-> edidVersion,
          edidRevision |-> edidRevision,
          numberOfExtensions |-> getNumberExtensions(bytes),
          checksum |-> getChecksum(bytes, 0),
          isChecksumValid |-> validChecksum(bytes, 0)],
       warns |->
         IF edidVersion = 1 /\ edidRevision \notin 0..4
           THEN << Warning("unknown_edid_minor_version", 0, 19) >>
           ELSE << >>]

----------------------------------------------------------------------------
(* buildFeatureSupport.  `threw` records a TypeError: iterating            *)
(* ext.dataBlockCollection with for...of throws when the collection is     *)
(* undefined.  Of the summary's fields, colorGamuts,                       *)
(* maxInputSignalBitDepth, hdmiVersion, the three HDR flags and the static *)
(* and variable refresh ranges are carried.  Rates are exact fractions     *)
(* where the code holds doubles.                                           *)

CollectionMissing_Never(ext) == FALSE

\* `if (!dataBlocks) continue`
CollectionMissing(ext) == ~ext.hasDataBlockCollection

\* CANONICAL_GAMUTS, coordinates in thousandths
CANONICAL_GAMUTS ==
  << [gamut |-> "srgb", redX |-> 640, redY |-> 330, greenX |-> 300,
      greenY |-> 600, blueX |-> 150, blueY |-> 60],
     [gamut |-> "display_p3", redX |-> 680, redY |-> 320, greenX |-> 265,
      greenY |-> 690, blueX |-> 150, blueY |-> 60],
     [gamut |-> "adobe_rgb", redX |-> 640, redY |-> 330, greenX |-> 210,
      greenY |-> 710, blueX |-> 150, blueY |-> 60],
     [gamut |-> "rec_2020", redX |-> 708, redY |-> 292, greenX |-> 170,
      greenY |-> 797, blueX |-> 131, blueY |-> 46] >>

\* (c / 1024 - g / 1000) ** 2 in units of 1 / 128000^2, as a pair (millions,
\* rest) so that no intermediate value exceeds 32 bits
SquaredDifference(c, g) ==
  LET n == IF 125 * c >= 128 * g THEN 125 * c - 128 * g ELSE 128 * g - 125 * c
      h == n \div 1000
      l == n % 1000
  IN  [millions |-> h * h + (2 * h * l) \div 1000,
       rest |-> ((2 * h * l) % 1000) * 1000 + l * l]

\* the sum of six squared differences, carried into the millions
SumOfParts(p1, p2, p3, p4, p5, p6) ==
  LET rest == p1.rest + p2.rest + p3.rest + p4.rest + p5.rest + p6.rest
  IN  [millions |-> p1.millions + p2.millions + p3.millions + p4.millions
                      + p5.millions + p6.millions + rest \div 1000000,
       rest |-> rest % 1000000]

\* the distance of inferColorGamut, exact where the code rounds to a double
Distance(chromaticity, gamut) ==
  SumOfParts(SquaredDifference(chromaticity.redX, gamut.redX),
             SquaredDifference(chromaticity.redY, gamut.redY),
             SquaredDifference(chromaticity.greenX, gamut.greenX),
             SquaredDifference(chromaticity.greenY, gamut.greenY),
             SquaredDifference(chromaticity.blueX, gamut.blueX),
             SquaredDifference(chromaticity.blueY, gamut.blueY))

\* distance < closestDistance
Closer(d, e) == d.millions < e.millions \/ (d.millions = e.millions /\ d.rest < e.rest)

RECURSIVE GamutLoop(_, _, _)
\* for (const gamut of CANONICAL_GAMUTS): `closest` is the index of
\* closestGamut; the first gamut is closer than the initial infinity
GamutLoop(chromaticity, i, closest) ==
  IF i > Len(CANONICAL_GAMUTS) THEN CANONICAL_GAMUTS[closest].gamut
  ELSE IF closest = 0 \/ Closer(Distance(chromaticity, CANONICAL_GAMUTS[i]),
                                Distance(chromaticity, CANONICAL_GAMUTS[closest]))
    THEN GamutLoop(chromaticity, i + 1, i)
  ELSE GamutLoop(chromaticity, i + 1, closest)

\* inferColorGamut: getChromaticityCoordinates defines every coordinate
inferColorGamut(chromaticity) == GamutLoop(chromaticity, 1, 0)

\* Number.POSITIVE_INFINITY as the initial minSrrHz
Infinity == 2147483647

UndefinedRate == [defined |-> FALSE, num |-> 0, den |-> 1]

\* getDtdRefreshRateHz: the rate as the fraction num / den, the pixel clock
\* being in units of 10 kHz
getDtdRefreshRateHz(dtd) ==
  LET horizontalTotal == dtd.horizontalActivePixels + dtd.horizontalBlankLineCount
      verticalTotal == dtd.verticalActivePixels + dtd.verticalBlankLineCount
  IN  IF dtd.horizontalActivePixels <= 0 \/ dtd.verticalActivePixels <= 0
        THEN UndefinedRate
      ELSE IF horizontalTotal <= 0 \/ verticalTotal <= 0 THEN UndefinedRate
      ELSE IF dtd.pixelClock10kHz > 0
        THEN [defined |-> TRUE, num |-> dtd.pixelClock10kHz * 10000,
              den |-> horizontalTotal * verticalTotal]
      ELSE UndefinedRate

\* a whole number of Hz as a rate
WholeRate(hz) ==
  IF hz = Undefined THEN UndefinedRate ELSE [defined |-> TRUE, num |-> hz, den |-> 1]

\* addSrrRate on the accumulator
addSrrRate(acc, rate) ==
  IF ~rate.defined \/ rate.num <= 0 THEN acc
  ELSE LET rounded == RoundDiv(rate.num, rate.den)
       IN  IF rounded <= 0 THEN acc
           ELSE [acc EXCEPT !.minSrrHz = IF rounded < @ THEN rounded ELSE @,
                            !.maxSrrHz = IF rounded > @ THEN rounded ELSE @]

\* addVrrMin: the new minVrrHz; the decoders store whole numbers
addVrrMin(minVrrHz, rateHz) ==
  IF rateHz = Undefined \/ rateHz <= 0 THEN minVrrHz
  ELSE IF minVrrHz = Undefined THEN rateHz ELSE Min(minVrrHz, rateHz)

\* addVrrMax: the new maxVrrHz
addVrrMax(maxVrrHz, rateHz) ==
  IF rateHz = Undefined \/ rateHz <= 0 THEN maxVrrHz
  ELSE IF maxVrrHz = Undefined THEN rateHz ELSE Max(maxVrrHz, rateHz)

maxBitDepth(current, next) == IF next > current THEN next ELSE current

maxHdmiVersion_Latest(current, next) == next

\* maxHdmiVersion; versions are in tenths: 14, 20 and 21 for 1.4, 2 and 2.1
maxHdmiVersion(current, next) ==
  IF current = Undefined \/ next > current THEN next ELSE current

\* maxFixedRateLink !== undefined && maxFixedRateLink !== 'Not Supported'
FixedRateLinkSignaled(dataBlock) ==
  dataBlock.maxFixedRateLink # Undefined /\ dataBlock.maxFixedRateLink # 0

\* `if (signal) maxInputSignalBitDepth = maxBitDepth(maxInputSignalBitDepth, depth)`
RaisedBy(current, signal, depth) == IF signal THEN maxBitDepth(current, depth) ELSE current

\* the six statements of the vendor-block branch that raise the bit depth
VendorBitDepth(current, dataBlock) ==
  RaisedBy(RaisedBy(RaisedBy(RaisedBy(RaisedBy(RaisedBy(current,
    dataBlock.supportsDeepColor30 \/ dataBlock.supportsDeepColorY420_30, 10),
    dataBlock.supportsDeepColor36 \/ dataBlock.supportsDeepColorY420_36, 12),
    dataBlock.supportsDeepColor48 \/ dataBlock.supportsDeepColorY420_48, 16),
    dataBlock.hdmiForumFeatures.supports10bpcCompressedVideo, 10),
    dataBlock.hdmiForumFeatures.supports12bpcCompressedVideo, 12),
    dataBlock.hdmiForumFeatures.supports16bpcCompressedVideo, 16)

\* addHdmiVersion in the vendor-block branch
VendorHdmiVersion(current, dataBlock) ==
  IF dataBlock.ieeeOui = OUI_HDMI14 THEN maxHdmiVersion(current, 14)
  ELSE IF dataBlock.ieeeOui = OUI_HDMI_FORUM
    THEN maxHdmiVersion(current,
           IF \/ dataBlock.hfPayloadVersion # Undefined
              \/ dataBlock.hdmiForumFeatures.defined
              \/ FixedRateLinkSignaled(dataBlock)
             THEN 21 ELSE 20)
  ELSE current

\* the vendor-block branch of the loop over the data blocks
VendorBlockStep(acc, dataBlock) ==
  [acc EXCEPT !.hdmiVersion = VendorHdmiVersion(@, dataBlock),
              !.supportsDolbyVision = @ \/ dataBlock.supportsDolbyVision,
              !.maxInputSignalBitDepth = VendorBitDepth(@, dataBlock),
              !.minVrrHz = addVrrMin(@, dataBlock.vrrMinHz),
              !.maxVrrHz = addVrrMax(@, dataBlock.vrrMaxHz)]

\* addHdmiVersion in the extended-tag branch
ExtendedTagHdmiVersion(current, dataBlock) ==
  IF dataBlock.extendedTag = EXT_HDMI_FORUM_SCDB
    THEN maxHdmiVersion(current,
           IF dataBlock.hdmiForumFeatures.defined \/ FixedRateLinkSignaled(dataBlock)
             THEN 21 ELSE 20)
  ELSE IF \/ dataBlock.supportsQMS \/ dataBlock.supportsCinemaVRR
          \/ dataBlock.supportsNegativeMRR \/ dataBlock.supportsFVA
          \/ dataBlock.supportsALLM
    THEN maxHdmiVersion(current, 21)
  ELSE current

\* Set.prototype.has and Set.prototype.add; the Set is the sequence of its
\* members in insertion order
SetHas(set, value) == \E i \in 1..Len(set) : set[i] = value

SetAdd(set, value) == IF SetHas(set, value) THEN set ELSE Append(set, value)

\* colorGamuts.add in the extended-tag branch
BlockGamuts(colorGamuts, dataBlock) ==
  LET withAdobe ==
        IF dataBlock.supportsAdobeRGB THEN SetAdd(colorGamuts, "adobe_rgb") ELSE colorGamuts
  IN  IF \/ dataBlock.supportsBT2020RGB \/ dataBlock.supportsBT2020YCC
         \/ dataBlock.supportsBT2020cYCC
        THEN SetAdd(withAdobe, "rec_2020") ELSE withAdobe

\* the extended-tag branch of the loop over the data blocks
ExtendedTagBlockStep(acc, dataBlock) ==
  [acc EXCEPT !.hdmiVersion = ExtendedTagHdmiVersion(@, dataBlock),
              !.supportsHDR10 = @ \/ dataBlock.supportsHDR10,
              !.supportsHDR10Plus = @ \/ dataBlock.supportsHDR10Plus,
              !.supportsDolbyVision = @ \/ dataBlock.supportsDolbyVision,
              !.colorGamuts = BlockGamuts(@, dataBlock),
              !.minVrrHz = addVrrMin(@, dataBlock.vrrMinHz),
              !.maxVrrHz = addVrrMax(@, dataBlock.vrrMaxHz)]

RECURSIVE DataBlockLoop(_, _, _)
\* for (const dataBlock of dataBlocks): holes and blocks that are neither
\* vendor nor extended-tag blocks are skipped
DataBlockLoop(dataBlocks, i, acc) ==
  IF i > Len(dataBlocks) THEN acc
  ELSE LET dataBlock == dataBlocks[i]
       IN  IF ~dataBlock.defined THEN DataBlockLoop(dataBlocks, i + 1, acc)
           ELSE IF isVendorBlock(dataBlock)
             THEN DataBlockLoop(dataBlocks, i + 1, VendorBlockStep(acc, dataBlock))
           ELSE IF ~isExtendedTagBlock(dataBlock)
             THEN DataBlockLoop(dataBlocks, i + 1, acc)
           ELSE DataBlockLoop(dataBlocks, i + 1, ExtendedTagBlockStep(acc, dataBlock))

RECURSIVE DtdRateLoop(_, _, _)
\* for (const dtd of dtds) addSrrRate(getDtdRefreshRateHz(dtd))
DtdRateLoop(dtds, i, acc) ==
  IF i > Len(dtds) THEN acc
  ELSE DtdRateLoop(dtds, i + 1, addSrrRate(acc, getDtdRefreshRateHz(dtds[i])))

RECURSIVE ModeRateLoop(_, _, _)
\* for (const mode of baseBlock.standardDisplayModes) addSrrRate(mode.vertFreqHz)
ModeRateLoop(modes, i, acc) ==
  IF i > Len(modes) THEN acc
  ELSE ModeRateLoop(modes, i + 1, addSrrRate(acc, WholeRate(modes[i].vertFreqHz)))

\* the rest of the loop body once the extension's DTDs are accounted for
CollectionStep(ext, acc) ==
  IF CollectionMissing(ext) THEN acc
  ELSE IF ~ext.hasDataBlockCollection THEN [acc EXCEPT !.threw = TRUE]
  ELSE DataBlockLoop(ext.dataBlockCollection, 1, acc)

RECURSIVE ExtensionLoop(_, _, _)
\* for (const ext of extensions)
ExtensionLoop(exts, i, acc) ==
  IF i > Len(exts) \/ acc.threw THEN acc
  ELSE ExtensionLoop(exts, i + 1,
                     CollectionStep(exts[i], DtdRateLoop(exts[i].dtds, 1, acc)))

\* if (minVrrHz !== undefined && minSrrHz > minVrrHz) minSrrHz = minVrrHz
WidenMin(acc) ==
  IF acc.minVrrHz # Undefined /\ acc.minSrrHz > acc.minVrrHz
    THEN [acc EXCEPT !.minSrrHz = acc.minVrrHz] ELSE acc

WidenMax_Never(acc) == acc

\* if (maxVrrHz !== undefined && maxSrrHz < maxVrrHz) maxSrrHz = maxVrrHz
WidenMax(acc) ==
  IF acc.maxVrrHz # Undefined /\ acc.maxSrrHz < acc.maxVrrHz
    THEN [acc EXCEPT !.maxSrrHz = acc.maxVrrHz] ELSE acc

DefaultMin_Keep(acc) == acc

\* if (!Number.isFinite(minSrrHz)) minSrrHz = minVrrHz ?? maxVrrHz ?? 0
DefaultMin(acc) ==
  IF acc.minSrrHz = Infinity
    THEN [acc EXCEPT !.minSrrHz = IF acc.minVrrHz # Undefined THEN acc.minVrrHz
                                  ELSE IF acc.maxVrrHz # Undefined THEN acc.maxVrrHz
                                  ELSE 0]
    ELSE acc

\* if (maxSrrHz === 0) maxSrrHz = maxVrrHz ?? minSrrHz
DefaultMax(acc) ==
  IF acc.maxSrrHz = 0
    THEN [acc EXCEPT !.maxSrrHz = IF acc.maxVrrHz # Undefined THEN acc.maxVrrHz
                                  ELSE acc.minSrrHz]
    ELSE acc

\* if (maxSrrHz < minSrrHz) maxSrrHz = minSrrHz
OrderRange(acc) ==
  IF acc.maxSrrHz < acc.minSrrHz THEN [acc EXCEPT !.maxSrrHz = acc.minSrrHz] ELSE acc

\* the members in insertion order, as [...colorGamuts] would list them
OrderedColorGamuts_Encounter(colorGamuts) == colorGamuts

\* orderedColorGamuts
OrderedColorGamuts(colorGamuts) ==
  (IF SetHas(colorGamuts, "srgb") THEN << "srgb" >> ELSE << >>)
  \o (IF SetHas(colorGamuts, "display_p3") THEN << "display_p3" >> ELSE << >>)
  \o (IF SetHas(colorGamuts, "adobe_rgb") THEN << "adobe_rgb" >> ELSE << >>)
  \o (IF SetHas(colorGamuts, "rec_2020") THEN << "rec_2020" >> ELSE << >>)

\* the statements after the loop over the extensions
Summarise(acc, inferredGamut) ==
  IF acc.threw THEN acc
  ELSE [OrderRange(DefaultMax(DefaultMin(WidenMax(WidenMin(acc)))))
          EXCEPT !.colorGamuts = OrderedColorGamuts(@)]

\* the accumulator before the loops; colorGamuts is the Set
InitialSummary(inferredGamut, basicDisplayParams) ==
  [threw |-> FALSE,
   colorGamuts |-> SetAdd(SetAdd(IF basicDisplayParams.isStandardSRgb
                                    THEN << "srgb" >> ELSE << >>, inferredGamut), "srgb"),
   maxInputSignalBitDepth |-> 8,
   supportsHDR10 |-> FALSE, supportsHDR10Plus |-> FALSE, supportsDolbyVision |-> FALSE,
   minVrrHz |-> Undefined, maxVrrHz |-> Undefined, hdmiVersion |-> Undefined,
   minSrrHz |-> Infinity, maxSrrHz |-> 0]

\* the loops of buildFeatureSupport, in the code's order
SummaryLoops(base, exts, nativeResolution, start) ==
  ExtensionLoop(exts, 1,
    DtdRateLoop(base.dtds, 1,
      ModeRateLoop(base.standardDisplayModes, 1,
        addSrrRate(start, WholeRate(nativeResolution.refreshRateHz)))))

\* the summary for a given inferred gamut
SummaryFor(base, exts, basicDisplayParams, nativeResolution, inferredGamut) ==
  Summarise(SummaryLoops(base, exts, nativeResolution,
                         InitialSummary(inferredGamut, basicDisplayParams)),
            inferredGamut)

buildFeatureSupport(base, exts, basicDisplayParams, nativeResolution) ==
  SummaryFor(base, exts, basicDisplayParams, nativeResolution,
             inferColorGamut(base.chromaticity))

----------------------------------------------------------------------------
(* parseEdid *)

ToUint8Clamped(v) == IF v < 0 THEN 0 ELSE IF v > 255 THEN 255 ELSE v

Kinds == {"number[]", "Uint8Array", "Uint8ClampedArray", "ArrayBuffer"}

\* new Uint8ClampedArray(data): a view on the caller's memory for an
\* ArrayBuffer, freshly allocated storage holding the clamped elements otherwise
NewUint8ClampedArray(data, kind) ==
  IF kind = "ArrayBuffer"
    THEN [ref |-> "caller", storage |-> << >>]
    ELSE [ref |-> "own", storage |-> [i \in 1..Len(data) |-> ToUint8Clamped(data[i])]]

CallerAfterConstruct_ClampInPlace(data, kind) ==
  [i \in 1..Len(data) |-> ToUint8Clamped(data[i])]

\* what the constructor leaves in its argument
CallerAfterConstruct(data, kind) == data

\* ctx.bytes
CtxBytes == IF bytesRef = "caller" THEN callerBuf ELSE ownBuf

\* the count byte 126 declares, in place of the count of blocks present
actualExtensionCount_Declared(bytes) == IF Len(bytes) > 126 THEN bytes[127] ELSE 0

actualExtensionCount(bytes) == Max(0, (Len(bytes) \div EDID_BLOCK_LENGTH) - 1)

LengthWarnings(bytes) ==
  (IF Len(bytes) < EDID_BLOCK_LENGTH
     THEN << Warning("too_short", Undefined, Undefined) >> ELSE << >>)
  \o (IF Len(bytes) % EDID_BLOCK_LENGTH # 0
        THEN << Warning("length_not_multiple_of_128", Undefined, Undefined) >>
        ELSE << >>)

BaseChecksumWarning_Falsy(base) ==
  IF base.isChecksumValid # "true"
    THEN << Warning("checksum_failed", 0, 127) >> ELSE << >>

\* if (baseBlock.isChecksumValid === false) warn(...)
BaseChecksumWarning(base) ==
  IF base.isChecksumValid = "false"
    THEN << Warning("checksum_failed", 0, 127) >> ELSE << >>

ExtensionCountWarning_OnlyMissing(expected, actual) ==
  IF expected > actual
    THEN << Warning("extension_count_mismatch", Undefined, Undefined) >> ELSE << >>

\* if (expectedExtensionCount !== actualExtensionCount) warn(...)
ExtensionCountWarning(expected, actual) ==
  IF expected # actual
    THEN << Warning("extension_count_mismatch", Undefined, Undefined) >> ELSE << >>

BaseWarnings(bytes, base) ==
  (IF ~base.isHeaderValid THEN << Warning("invalid_header", 0, 0) >> ELSE << >>)
  \o BaseChecksumWarning(base)
  \o ExtensionCountWarning(base.numberOfExtensions, actualExtensionCount(bytes))

RECURSIVE ExtChecksumWarnings(_, _)
\* the loop over `extensions` that follows parseExtensions
ExtChecksumWarnings(exts, i) ==
  IF i > Len(exts) THEN << >>
  ELSE (IF exts[i].isChecksumValid = "false"
          THEN << Warning("checksum_failed", exts[i].blockNumber, 127) >>
          ELSE << >>)
       \o ExtChecksumWarnings(exts, i + 1)

NewExtensionContext_Stale == context

\* const extensionContext: ExtensionParseContext = {}
NewExtensionContext == EmptyContext

NoResult == [returned |-> FALSE]

\* the loop condition of parseExtensions, including the break on a missing tag
ExtensionLoopContinues(bytes, count, i) ==
  /\ i < count
  /\ u8(bytes, EDID_BLOCK_LENGTH * (i + 1), 0) # Undefined

ExtensionStep_FreshContext(bytes, st) ==
  LET r == parseExtensionBlock(bytes, st.extIndex, EmptyContext)
  IN  [extIndex |-> st.extIndex + 1,
       extensions |-> Append(st.extensions, r.ext),
       context |-> r.ctx,
       warnings |-> st.warnings \o r.warns]

\* one iteration of the loop of parseExtensions on the loop state
ExtensionStep(bytes, st) ==
  LET r == parseExtensionBlock(bytes, st.extIndex, st.context)
  IN  [extIndex |-> st.extIndex + 1,
       extensions |-> Append(st.extensions, r.ext),
       context |-> r.ctx,
       warnings |-> st.warnings \o r.warns]

\* the object parseEdid returns; bytesAtReturn and inputAtReturn are history
\* fields: what result.bytes and the caller's data held when the call returned
MakeResult(ref, bytes, callerData, warns, base, exts, features) ==
  [returned |-> TRUE,
   bytes |-> ref,
   bytesAtReturn |-> bytes,
   inputAtReturn |-> callerData,
   warnings |-> warns,
   isHeaderValid |-> base.isHeaderValid,
   isChecksumValid |-> base.isChecksumValid,
   expectedExtensionCount |-> base.numberOfExtensions,
   baseBlock |-> base,
   extensions |-> exts,
   featureSupport |-> [colorGamuts |-> features.colorGamuts,
                       maxInputSignalBitDepth |-> features.maxInputSignalBitDepth,
                       hdmiVersion |-> features.hdmiVersion,
                       supportsHDR10 |-> features.supportsHDR10,
                       supportsHDR10Plus |-> features.supportsHDR10Plus,
                       supportsDolbyVision |-> features.supportsDolbyVision,
                       minSrrHz |-> features.minSrrHz,
                       maxSrrHz |-> features.maxSrrHz,
                       minVrrHz |-> features.minVrrHz,
                       maxVrrHz |-> features.maxVrrHz]]

RECURSIVE parseExtensions(_, _, _)
parseExtensions(bytes, count, st) ==
  IF ExtensionLoopContinues(bytes, count, st.extIndex)
    THEN parseExtensions(bytes, count, ExtensionStep(bytes, st))
    ELSE st

\* parseEdid(data) run to completion in the initial state of the program
FirstCallResult(data, kind) ==
  LET arr == NewUint8ClampedArray(data, kind)
      bytes == IF arr.ref = "caller" THEN data ELSE arr.storage
      base == parseBaseBlock(bytes)
      st == parseExtensions(bytes, actualExtensionCount(bytes),
              [extIndex |-> 0, extensions |-> << >>, context |-> EmptyContext,
               warnings |-> LengthWarnings(bytes) \o base.warns
                            \o BaseWarnings(bytes, base.baseBlock)])
      features == buildFeatureSupport(base.baseBlock, st.extensions,
                                      base.basicDisplayParams, base.nativeResolution)
  IN  IF features.threw THEN NoResult
      ELSE MakeResult(arr.ref, bytes, data,
                      st.warnings \o ExtChecksumWarnings(st.extensions, 1),
                      base.baseBlock, st.extensions, features)

\* the fields of a result a caller can read
Observable(r) ==
  IF ~r.returned THEN r
  ELSE [bytes |-> r.bytesAtReturn, warnings |-> r.warnings,
        isHeaderValid |-> r.isHeaderValid, isChecksumValid |-> r.isChecksumValid,
        expectedExtensionCount |-> r.expectedExtensionCount,
        baseBlock |-> r.baseBlock, extensions |-> r.extensions,
        featureSupport |-> r.featureSupport]

----------------------------------------------------------------------------
(* Inputs.  EDID images are assembled the way the test suites assemble     *)
(* them: a 128-byte block from its leading bytes, zero padding and a       *)
(* checksum byte.                                                          *)

Header == << 0, 255, 255, 255, 255, 255, 255, 0 >>

\* the byte that makes a block's sum a multiple of 256
ChecksumFor(b127) == (256 - (SumLoop(b127, 0, Len(b127)) % 256)) % 256

\* a block: leading bytes, padding, and the right checksum plus `delta`
Block(leading, delta) ==
  LET b127 == leading \o SeqOf(0, 127 - Len(leading))
  IN  b127 \o << (ChecksumFor(b127) + delta) % 256 >>

\* a base block of EDID 1.4 declaring `declared` extensions
BaseImage(headerOk, declared, delta) ==
  Block((IF headerOk THEN Header ELSE SeqOf(0, 8))
        \o SeqOf(0, 10) \o << 1, 4 >> \o SeqOf(0, 106) \o << declared >>, delta)

\* data blocks: header byte [tag:3][length:5], then the payload
VideoA == << 66, 16, 144 >>
VideoB == << 65, 95 >>
VideoEmpty == << 64 >>
AudioBlk == << 35, 9, 7, 7 >>
ReservedBlk == << 1, 170 >>
CapMap == << 226, 15, 5 >>
HdrBlk == << 227, 6, 4, 1 >>

\* a CTA-861 block whose dtdStart falls `cut` bytes short of the collection's end
CtaBlock(dbc, cut, delta) ==
  Block(<< CTA_EXTENSION_TAG, 3, START_DATA_BLOCK + Len(dbc) - cut, 240 >> \o dbc, delta)

ExtCatalog ==
  << CtaBlock(VideoA \o ReservedBlk \o VideoB \o CapMap, 0, 0),
     CtaBlock(CapMap \o HdrBlk, 0, 0),
     Block(<< CTA_EXTENSION_TAG, 3, 4, 0 >>, 0),
     Block(<< DISPLAYID_EXTENSION_TAG, 32, 10 >>, 0),
     Block(<< 16, 1, 0, 0 >>, 0),
     Block(<< CTA_EXTENSION_TAG, 3, 2, 0 >>, 1) >>

RECURSIVE ExtBlocks(_, _)
\* n extension blocks, taken from the catalog starting at entry r (0-based)
ExtBlocks(n, r) ==
  IF n = 0 THEN << >>
  ELSE ExtCatalog[(r % Len(ExtCatalog)) + 1] \o ExtBlocks(n - 1, r + 1)

ExtImage(n, r) == BaseImage(TRUE, n, 0) \o ExtBlocks(n, r)

Typed(data) == [data |-> data, kind |-> "Uint8ClampedArray"]

Inputs ==
  { Typed(Slice(BaseImage(TRUE, 0, 0), 0, len)) : len \in {0, 3, 8, 127} }
  \cup { Typed(BaseImage(h, d, delta)) : h \in BOOLEAN, d \in {0, 1}, delta \in {0, 1} }
  \cup { Typed(SeqOf(0, EDID_BLOCK_LENGTH)) }
  \cup { Typed(ExtImage(n, r)) : n \in 1..MaxExtBlocks, r \in 0..(Len(ExtCatalog) - 1) }
  \cup { Typed(Slice(ExtImage(1, 0), 0, 200)),
         Typed(ExtImage(1, 3) \o << 1, 2, 3 >>),
         Typed(BaseImage(TRUE, 0, 0) \o ExtBlocks(1, 0)) }
  \cup { [data |-> << 300, -5, 7 >>, kind |-> "number[]"],
         [data |-> [BaseImage(TRUE, 0, 0) EXCEPT ![21] = 300], kind |-> "number[]"],
         [data |-> BaseImage(TRUE, 0, 0), kind |-> "Uint8Array"],
         [data |-> BaseImage(TRUE, 0, 1), kind |-> "ArrayBuffer"],
         [data |-> ExtImage(1, 0), kind |-> "ArrayBuffer"] }

\* where a caller writes into its buffer after a call has returned
MutateOffsets == {0, 127}

----------------------------------------------------------------------------
(* parseEdid as a state machine.  A call runs from its entry to the loop   *)
(* of parseExtensions in one step, takes one step per extension block, and *)
(* one step from the end of the loop to its return.                        *)

NoProbe == [phase |-> "none"]

\* the program before any call
MainInit ==
  /\ callerBuf = << >>
  /\ callerKind = "Uint8ClampedArray"
  /\ ownBuf = << >>
  /\ bytesRef = "own"
  /\ pc = "idle"
  /\ warnings = << >>
  /\ baseBlock = parseBaseBlock(<< >>).baseBlock
  /\ extensions = << >>
  /\ extIndex = 0
  /\ context = EmptyContext
  /\ result = NoResult
  /\ snapshot = << >>
  /\ calls = 0

Init == MainInit /\ probe = NoProbe

\* parseEdid(data), from its entry up to the call of parseExtensions
Begin(data, kind) ==
  /\ pc \in {"idle", "done"}
  /\ calls < MaxCalls
  /\ LET arr == NewUint8ClampedArray(data, kind)
         caller == CallerAfterConstruct(data, kind)
         bytes == IF arr.ref = "caller" THEN caller ELSE arr.storage
         base == parseBaseBlock(bytes)
     IN  /\ callerBuf' = caller
         /\ callerKind' = kind
         /\ ownBuf' = arr.storage
         /\ bytesRef' = arr.ref
         /\ baseBlock' = base.baseBlock
         /\ warnings' = LengthWarnings(bytes) \o base.warns
                        \o BaseWarnings(bytes, base.baseBlock)
  /\ context' = NewExtensionContext
  /\ extensions' = << >>
  /\ extIndex' = 0
  /\ snapshot' = data
  /\ calls' = calls + 1
  /\ pc' = "exts"
  /\ UNCHANGED <<result, probe>>

\* a call on one of the generated inputs
Call == \E inp \in Inputs : Begin(inp.data, inp.kind)

\* a call on the buffer of the previous call, after the caller has written to it
Redecode ==
  /\ pc = "done"
  /\ callerBuf # snapshot
  /\ Begin(callerBuf, callerKind)

\* one iteration of the loop of parseExtensions
ParseExtension ==
  /\ pc = "exts"
  /\ ExtensionLoopContinues(CtxBytes, actualExtensionCount(CtxBytes), extIndex)
  /\ LET st == ExtensionStep(CtxBytes,
                 [extIndex |-> extIndex, extensions |-> extensions,
                  context |-> context, warnings |-> warnings])
     IN  /\ extIndex' = st.extIndex
         /\ extensions' = st.extensions
         /\ context' = st.context
         /\ warnings' = st.warnings
  /\ UNCHANGED <<callerBuf, callerKind, ownBuf, bytesRef, pc, baseBlock, result,
                 snapshot, calls, probe>>

\* from the end of the loop to the return: the extensions' checksum warnings,
\* buildFeatureSupport, and the result object
Finish ==
  /\ pc = "exts"
  /\ ~ExtensionLoopContinues(CtxBytes, actualExtensionCount(CtxBytes), extIndex)
  /\ LET warns == warnings \o ExtChecksumWarnings(extensions, 1)
         base == parseBaseBlock(CtxBytes)
         features == buildFeatureSupport(baseBlock, extensions,
                                         base.basicDisplayParams, base.nativeResolution)
     IN  /\ warnings' = warns
         /\ IF features.threw
              THEN pc' = "threw" /\ result' = NoResult
              ELSE /\ pc' = "done"
                   /\ result' = MakeResult(bytesRef, CtxBytes, callerBuf, warns,
                                           baseBlock, extensions, features)
  /\ UNCHANGED <<callerBuf, callerKind, ownBuf, bytesRef, baseBlock, extensions,
                 extIndex, context, snapshot, calls, probe>>

\* the caller writes one element of its buffer after the call has returned
Mutate ==
  /\ pc = "done"
  /\ callerBuf = snapshot
  /\ calls < MaxCalls
  /\ \E off \in MutateOffsets :
       /\ off < Len(callerBuf)
       /\ callerBuf' = [callerBuf EXCEPT ![off + 1] = (@ + 1) % 256]
  /\ UNCHANGED <<callerKind, ownBuf, bytesRef, pc, warnings, baseBlock, extensions,
                 extIndex, context, result, snapshot, calls, probe>>

Next == Call \/ Redecode \/ ParseExtension \/ Finish \/ Mutate

Spec == Init /\ [][Next]_vars

----------------------------------------------------------------------------
(* Properties of parseEdid, checked under Spec *)

HasWarning(ws, code, blockIndex) ==
  \E i \in 1..Len(ws) : ws[i].code = code /\ ws[i].blockIndex = blockIndex

HasCode(ws, code) == \E i \in 1..Len(ws) : ws[i].code = code

\* what result.bytes holds now
ResultBytes == IF result.bytes = "caller" THEN callerBuf ELSE ownBuf

\* C1: every call of parseEdid, whatever the length and the values of its
\* input, completes and returns a result object; no call ends with an
\* exception escaping to the caller.
C1_NeverThrows ==
  /\ pc # "threw"
  /\ pc = "done" => result.returned

\* a call returned for an input whose length is no multiple of 128 and which
\* holds an extension block without a data block collection
C1_Witness ==
  /\ pc = "done"
  /\ result.returned
  /\ Len(snapshot) % EDID_BLOCK_LENGTH # 0
  /\ \E i \in 1..Len(result.extensions) : ~result.extensions[i].hasDataBlockCollection

\* C4: whatever calls came before, parseEdid(b) returns what a first call on b
\* returns (bytes, warnings, base block, extensions, feature summary): nothing
\* one call computed, the last-video-block context included, reaches another.
C4_Deterministic ==
  pc = "done" => Observable(result) = Observable(FirstCallResult(snapshot, callerKind))

\* a second or later call returned a capability map that found no video block
C4_Witness ==
  /\ pc = "done"
  /\ calls >= 2
  /\ \E i \in 1..Len(result.extensions) :
       \E j \in 1..Len(result.extensions[i].dataBlockCollection) :
         LET blk == result.extensions[i].dataBlockCollection[j]
         IN  /\ isExtendedTagBlock(blk)
             /\ blk.extendedTag = EXT_YCBCR420_CAPABILITY_MAP
             /\ ~blk.hasCapableSvds

\* C5: parseEdid never writes to its input: during the call and when it
\* returns, every element of the caller's data holds the value it held when
\* the call was made.
C5_InputUntouched ==
  /\ pc = "exts" => callerBuf = snapshot
  /\ pc = "done" => result.inputAtReturn = snapshot

\* a call returned for a number array holding a value outside 0..255
C5_Witness ==
  /\ pc = "done"
  /\ callerKind = "number[]"
  /\ \E i \in 1..Len(snapshot) : snapshot[i] > 255
  /\ result.bytesAtReturn # snapshot

\* C6: a decode reads its input independently: for each of the four input
\* representations, after the caller writes to its buffer the returned result
\* (its bytes and rawBytes) still holds what it held at the return, and the
\* result of a decode holds the bytes of the buffer it was called on.
C6_IndependentRead ==
  pc = "done" =>
    /\ ResultBytes = result.bytesAtReturn
    /\ result.baseBlock.rawBytes = Slice(result.bytesAtReturn, 0, EDID_BLOCK_LENGTH)
    /\ result.bytesAtReturn = [i \in 1..Len(snapshot) |-> ToUint8Clamped(snapshot[i])]

\* C7: the warnings hold a checksum_failed warning with blockIndex b exactly
\* when block b was decoded and its isChecksumValid is false; a block whose
\* checksum matches or whose checksum cannot be evaluated (truncated) has none.
C7_ChecksumFailedWarning ==
  pc = "done" =>
    /\ HasWarning(result.warnings, "checksum_failed", 0)
         <=> result.baseBlock.isChecksumValid = "false"
    /\ \A b \in 1..(Len(result.bytesAtReturn) \div EDID_BLOCK_LENGTH + 1) :
         HasWarning(result.warnings, "checksum_failed", b)
           <=> /\ b <= Len(result.extensions)
               /\ result.extensions[b].isChecksumValid = "false"
    /\ Len(result.bytesAtReturn) < EDID_BLOCK_LENGTH
         => ~HasWarning(result.warnings, "checksum_failed", 0)
    /\ \A i \in 1..Len(result.warnings) :
         result.warnings[i].code = "checksum_failed"
           => result.warnings[i].blockIndex \in 0..Len(result.extensions)

\* a call returned with a checksum_failed warning for extension block 1 and
\* none for the base block
C7_Witness ==
  /\ pc = "done"
  /\ HasWarning(result.warnings, "checksum_failed", 1)
  /\ ~HasWarning(result.warnings, "checksum_failed", 0)
  /\ result.baseBlock.isChecksumValid = "true"

\* the count byte 126 declares (0 when the input has no byte 126)
DeclaredCount(bytes) == IF Len(bytes) > 126 THEN bytes[127] ELSE 0

\* the complete 128-byte blocks of the input after the base block
CompleteBlocksAfterBase(bytes) ==
  Cardinality({ b \in 1..(Len(bytes) \div EDID_BLOCK_LENGTH) :
                  (b + 1) * EDID_BLOCK_LENGTH <= Len(bytes) })

\* C8: an extension_count_mismatch warning is emitted exactly when the count
\* declared in byte 126 differs from the number of complete 128-byte blocks
\* present after the base block.
C8_ExtensionCountMismatch ==
  pc = "done" =>
    (HasCode(result.warnings, "extension_count_mismatch")
       <=> DeclaredCount(result.bytesAtReturn)
             # CompleteBlocksAfterBase(result.bytesAtReturn))

\* a call returned the warning for an input that declares no extension and
\* holds one
C8_Witness ==
  /\ pc = "done"
  /\ HasCode(result.warnings, "extension_count_mismatch")
  /\ DeclaredCount(result.bytesAtReturn) = 0
  /\ CompleteBlocksAfterBase(result.bytesAtReturn) = 1

\* C29: result.extensions holds exactly max(0, floor(length / 128) - 1)
\* records, one per complete 128-byte block after the base block, the k-th
\* with blockNumber k, whatever count byte 126 declares.
C29_OneRecordPerBlock ==
  pc = "done" =>
    /\ Len(result.extensions) = CompleteBlocksAfterBase(result.bytesAtReturn)
    /\ \A k \in 1..Len(result.extensions) : result.extensions[k].blockNumber = k

\* a call returned one record for an input that declares no extension and
\* holds one block after the base block
C29_Witness ==
  /\ pc = "done"
  /\ DeclaredCount(result.bytesAtReturn) = 0
  /\ Len(result.bytesAtReturn) = 2 * EDID_BLOCK_LENGTH
  /\ Len(result.extensions) = 1
  /\ result.extensions[1].blockNumber = 1

----------------------------------------------------------------------------
(* validChecksum on its own: a block of every checksum byte, as the base   *)
(* block or as extension block 1, and a truncated block.                   *)

\* bytes 0..126 of the blocks checked
ChecksumPatterns ==
  { SeqOf(0, 127),
    SeqOf(0, 126) \o << 1 >>,
    SeqOf(255, 127),
    Header \o SeqOf(0, 10) \o << 1, 4 >> \o SeqOf(0, 107) }

ChecksumInputs ==
  { [bytes |-> (IF b = 0 THEN << >> ELSE BaseImage(TRUE, 1, 0)) \o p \o << ck >>,
     block |-> b] : p \in ChecksumPatterns, ck \in 0..255, b \in {0, 1} }
  \cup { [bytes |-> Slice(p, 0, 100), block |-> 0] : p \in ChecksumPatterns }

InitChecksum ==
  /\ MainInit
  /\ probe \in { [phase |-> "in", bytes |-> inp.bytes, block |-> inp.block,
                  out |-> "none"] : inp \in ChecksumInputs }

ApplyValidChecksum ==
  /\ probe.phase = "in"
  /\ probe' = [probe EXCEPT !.phase = "out",
                            !.out = validChecksum(probe.bytes, probe.block)]
  /\ UNCHANGED mainVars

NextChecksum == ApplyValidChecksum

SpecChecksum == InitChecksum /\ [][NextChecksum]_vars

\* ck with bit k inverted
FlipBit(ck, k) == IF BitSet(ck, k) THEN ck - Pow2(k) ELSE ck + Pow2(k)

\* C2: for a block that is completely present, isChecksumValid is true exactly
\* when bytes 0..126 plus the checksum byte sum to 0 modulo 256, that is when
\* the checksum byte is (256 - (sum mod 256)) mod 256 (0, not 256, for a sum
\* that is a multiple of 256); inverting one bit of a valid checksum byte
\* makes the block invalid.
C2_ChecksumValidity ==
  (probe.phase = "out" /\ Len(probe.bytes) >= (probe.block + 1) * EDID_BLOCK_LENGTH) =>
    LET start == probe.block * EDID_BLOCK_LENGTH
        sum == SumLoop(probe.bytes, start, start + 127)
        ck == probe.bytes[start + 128]
    IN  /\ (probe.out = "true") <=> ((sum + ck) % 256 = 0)
        /\ (probe.out = "true") <=> (ck = (256 - (sum % 256)) % 256)
        /\ probe.out = "true" =>
             \A k \in 0..7 :
               validChecksum([probe.bytes EXCEPT ![start + 128] = FlipBit(ck, k)],
                             probe.block) = "false"

----------------------------------------------------------------------------
(* The HDR Static Metadata decoder on its own: a block of every length     *)
(* 1..6 with every EOTF bitmap and descriptor bitmap, followed by a block  *)
(* whose header byte has bit 0 set.                                        *)

HdrInputs ==
  { [blockLength |-> len, eotf |-> e, sm |-> d] :
      len \in 1..6, e \in 0..63, d \in 0..3 }

\* the image holding the block: its header byte is at offset 4 of block 1
HdrImage(inp) ==
  BaseImage(TRUE, 1, 0)
  \o CtaBlock(<< 224 + inp.blockLength >>
              \o Slice(<< EXT_HDR_STATIC_METADATA, inp.eotf, inp.sm, 100, 50, 10 >>,
                       0, inp.blockLength)
              \o ReservedBlk, 0, 0)

InitHdr ==
  /\ MainInit
  /\ probe \in { [phase |-> "in", blockLength |-> inp.blockLength, eotf |-> inp.eotf,
                  sm |-> inp.sm, bytes |-> HdrImage(inp),
                  out |-> UndefinedBlock] : inp \in HdrInputs }

ApplyHdr ==
  /\ probe.phase = "in"
  /\ probe' = [probe EXCEPT !.phase = "out",
         !.out = parseExtendedTagDataBlock(probe.bytes, EDID_BLOCK_LENGTH,
                   START_DATA_BLOCK + 1, probe.blockLength, EmptyContext)]
  /\ UNCHANGED mainVars

NextHdr == ApplyHdr

SpecHdr == InitHdr /\ [][NextHdr]_vars

\* C10: an HDR Static Metadata block has supportsHDR10 set exactly when the PQ
\* bit (bit 2) of its EOTF bitmap and the Static Metadata Type 1 bit (bit 0)
\* of its descriptor bitmap are both set, a bitmap the block is too short to
\* hold having no bit set; the other EOTF bits do not matter.
C10_SupportsHdr10 ==
  probe.phase = "out" =>
    /\ probe.out.extendedTag = EXT_HDR_STATIC_METADATA
    /\ probe.out.supportsHDR10
         <=> /\ probe.blockLength >= 2 /\ BitSet(probe.eotf, 2)
             /\ probe.blockLength >= 3 /\ BitSet(probe.sm, 0)

\* a block with every EOTF bit and the Type 1 bit set was decoded with
\* supportsHDR10 set
C10_Witness ==
  /\ probe.phase = "out"
  /\ probe.eotf = 15
  /\ probe.sm = 1
  /\ probe.out.supportsHDR10

----------------------------------------------------------------------------
(* The scan of parseDataBlockCollection, one data block per step, on the   *)
(* collections of up to MaxDataBlocks blocks of a catalog.  `seen` is the  *)
(* history of the scan: the descriptors of the VIDEO blocks it has visited *)
(* so far, read from their payload bytes, in the order of the visits.      *)

DbcCatalog == << VideoA, VideoB, VideoEmpty, AudioBlk, ReservedBlk, CapMap, HdrBlk >>

DbcSequences == UNION { [1..n -> 1..Len(DbcCatalog)] : n \in 0..MaxDataBlocks }

RECURSIVE Flatten(_, _)
Flatten(f, i) == IF i > Len(f) THEN << >> ELSE DbcCatalog[f[i]] \o Flatten(f, i + 1)

\* a collection, and by how many bytes dtdStart falls short of its end
DbcInputs ==
  { [dbc |-> Flatten(f, 1), cut |-> c] : f \in DbcSequences, c \in {0, 1} }

InitDbc ==
  /\ MainInit
  /\ probe \in { [phase |-> "scan",
                  bytes |-> BaseImage(TRUE, 1, 0) \o CtaBlock(inp.dbc, inp.cut, 0),
                  dtdStart |-> START_DATA_BLOCK + Len(inp.dbc) - inp.cut,
                  st |-> ScanInit(EmptyContext),
                  seen |-> << >>,
                  videoCount |-> 0] : inp \in { i \in DbcInputs : i.cut <= Len(i.dbc) } }

\* the descriptors in the payload of the data block whose header is at `index`
PayloadSvds(bytes, blockOffset, index) ==
  LET blockLength == Bits(bytes[blockOffset + index + 1], 0, 5)
  IN  [k \in 1..blockLength |-> ShortVideoDescriptor(bytes[blockOffset + index + k + 1])]

\* one iteration of the primary scan
DbcStep ==
  /\ probe.phase = "scan"
  /\ ScanContinues(probe.bytes, EDID_BLOCK_LENGTH, probe.dtdStart, probe.st)
  /\ LET isVideo == Bits(u8(probe.bytes, EDID_BLOCK_LENGTH, probe.st.index), 5, 3)
                      = TAG_VIDEO
     IN  probe' = [probe EXCEPT
           !.st = ScanStep(probe.bytes, EDID_BLOCK_LENGTH, 1, probe.st),
           !.seen = IF isVideo
                      THEN @ \o PayloadSvds(probe.bytes, EDID_BLOCK_LENGTH, probe.st.index)
                      ELSE @,
           !.videoCount = IF isVideo THEN @ + 1 ELSE @]
  /\ UNCHANGED mainVars

\* the end of the primary scan, and the recovery scan
DbcFinish ==
  /\ probe.phase = "scan"
  /\ ~ScanContinues(probe.bytes, EDID_BLOCK_LENGTH, probe.dtdStart, probe.st)
  /\ probe' = [probe EXCEPT
       !.phase = "done",
       !.st = RecoveryScan(probe.bytes, EDID_BLOCK_LENGTH, START_DATA_BLOCK,
                           probe.dtdStart, probe.st)]
  /\ UNCHANGED mainVars

NextDbc == DbcStep \/ DbcFinish

SpecDbc == InitDbc /\ [][NextDbc]_vars

VideoBlocksOf(coll) == { i \in 1..Len(coll) : isVideoBlock(coll[i]) }

\* C9: the data block collection of a CTA-861 extension holds at most one
\* video data block, and its short-video-descriptor list is the concatenation,
\* in scan order, of the descriptors of every VIDEO data block of the
\* collection.
C9_SingleVideoBlock ==
  LET coll == probe.st.coll
  IN  /\ Cardinality(VideoBlocksOf(coll)) <= 1
      /\ probe.videoCount = 0 => VideoBlocksOf(coll) = {}
      /\ probe.videoCount > 0 =>
           /\ Cardinality(VideoBlocksOf(coll)) = 1
           /\ \A i \in VideoBlocksOf(coll) :
                coll[i].shortVideoDescriptors = probe.seen
      /\ probe.phase = "done" =>
           probe.st = parseDataBlockCollection(probe.bytes, EDID_BLOCK_LENGTH, 1,
                                               probe.dtdStart, EmptyContext)

\* a scan ended that visited two non-empty VIDEO blocks with another block
\* between them
C9_Witness ==
  /\ probe.phase = "done"
  /\ probe.videoCount = 2
  /\ Len(probe.seen) = 3
  /\ Len(probe.st.coll) = 3
  /\ ~probe.st.coll[2].defined
  /\ ~probe.st.coll[3].defined

----------------------------------------------------------------------------
(* The feature summary of one CTA extension block: a collection of up to   *)
(* MaxDataBlocks blocks drawn from HDR Dynamic Metadata blocks of every    *)
(* type id 0..5, Vendor-Specific Video blocks and vendor-specific blocks.  *)

DynBlk(metadataType) == << 227, EXT_HDR_DYNAMIC_METADATA, metadataType, 1 >>
\* organisation identifiers are stored least significant byte first
VsvHdr10Plus == << 228, EXT_VENDOR_SPECIFIC_VIDEO, 139, 132, 144 >>
VsvDolby == << 228, EXT_VENDOR_SPECIFIC_VIDEO, 70, 208, 0 >>
VsvOther == << 228, EXT_VENDOR_SPECIFIC_VIDEO, 1, 2, 3 >>
VsvShort == << 227, EXT_VENDOR_SPECIFIC_VIDEO, 139, 132 >>
VendorDolby == << 99, 70, 208, 0 >>
VendorOther == << 99, 1, 2, 3 >>

FeatCatalog ==
  << DynBlk(0), DynBlk(1), DynBlk(2), DynBlk(3), DynBlk(4), DynBlk(5),
     VsvHdr10Plus, VsvDolby, VsvOther, VsvShort, VendorDolby, VendorOther >>

FeatSequences == UNION { [1..n -> 1..Len(FeatCatalog)] : n \in 0..MaxDataBlocks }

RECURSIVE FeatFlatten(_, _)
FeatFlatten(f, i) ==
  IF i > Len(f) THEN << >> ELSE FeatCatalog[f[i]] \o FeatFlatten(f, i + 1)

InitFeat ==
  /\ MainInit
  /\ probe \in { [phase |-> "in", blocks |-> [i \in 1..Len(f) |-> FeatCatalog[f[i]]],
                  bytes |-> BaseImage(TRUE, 1, 0) \o CtaBlock(FeatFlatten(f, 1), 0, 0),
                  collection |-> << >>,
                  out |-> [supportsHDR10 |-> FALSE, supportsHDR10Plus |-> FALSE,
                           supportsDolbyVision |-> FALSE]] : f \in FeatSequences }

\* the extension block is decoded and the summary built from it
ApplyFeat ==
  /\ probe.phase = "in"
  /\ LET ext == parseExtensionBlock(probe.bytes, 0, EmptyContext).ext
         base == parseBaseBlock(probe.bytes)
         features == buildFeatureSupport(base.baseBlock, << ext >>,
                                         base.basicDisplayParams, base.nativeResolution)
     IN  probe' = [probe EXCEPT
           !.phase = "out",
           !.collection = IF ext.hasDataBlockCollection
                            THEN ext.dataBlockCollection ELSE << >>,
           !.out = [supportsHDR10 |-> features.supportsHDR10,
                    supportsHDR10Plus |-> features.supportsHDR10Plus,
                    supportsDolbyVision |-> features.supportsDolbyVision]]
  /\ UNCHANGED mainVars

NextFeat == ApplyFeat

SpecFeat == InitFeat /\ [][NextFeat]_vars

\* an input block with tag 7, extended tag VENDOR_SPECIFIC_VIDEO and the
\* given organisation identifier in its payload
IsVendorSpecificVideoWithOui(b, oui) ==
  /\ Len(b) >= 5 /\ b[1] \div 32 = TAG_EXTENDED_TAG /\ b[1] % 32 >= 4
  /\ b[2] = EXT_VENDOR_SPECIFIC_VIDEO
  /\ b[3] + 256 * b[4] + 65536 * b[5] = oui

\* an input block with tag 3 and the given organisation identifier
IsVendorSpecificWithOui(b, oui) ==
  /\ Len(b) >= 4 /\ b[1] \div 32 = TAG_VENDOR_SPECIFIC
  /\ b[2] + 256 * b[3] + 65536 * b[4] = oui

IsDynamicMetadata(b, metadataType) ==
  /\ Len(b) >= 4 /\ b[1] \div 32 = TAG_EXTENDED_TAG
  /\ b[2] = EXT_HDR_DYNAMIC_METADATA /\ b[3] = metadataType

NoExplicitSignal(blocks) ==
  \A i \in 1..Len(blocks) :
    /\ ~IsVendorSpecificVideoWithOui(blocks[i], OUI_HDR10_PLUS)
    /\ ~IsVendorSpecificVideoWithOui(blocks[i], OUI_DOLBY_VISION)
    /\ ~IsVendorSpecificWithOui(blocks[i], OUI_DOLBY_VISION)

\* C11: when the input holds no Vendor-Specific Video block with the HDR10+ or
\* Dolby Vision identifier and no vendor-specific block with the Dolby Vision
\* identifier, the summary's supportsHDR10Plus and supportsDolbyVision are
\* both false, whatever HDR Dynamic Metadata blocks (of any type id, 1 and 4
\* included) it holds.
C11_DynamicMetadataSetsNoFlag ==
  (probe.phase = "out" /\ NoExplicitSignal(probe.blocks)) =>
    /\ ~probe.out.supportsHDR10Plus
    /\ ~probe.out.supportsDolbyVision

\* dynamic metadata blocks of type 1 and of type 4 were decoded, with their
\* labels, from an input without an explicit signal, and both flags are false
C11_Witness ==
  /\ probe.phase = "out"
  /\ NoExplicitSignal(probe.blocks)
  /\ \E i \in 1..Len(probe.blocks) : IsDynamicMetadata(probe.blocks[i], 1)
  /\ \E i \in 1..Len(probe.blocks) : IsDynamicMetadata(probe.blocks[i], 4)
  /\ \E i \in 1..Len(probe.collection) :
       /\ probe.collection[i].defined
       /\ probe.collection[i].tag = TAG_EXTENDED_TAG
       /\ probe.collection[i].supportedDynamicMetadataTypes = << "SMPTE ST 2094-40" >>
  /\ ~probe.out.supportsHDR10Plus
  /\ ~probe.out.supportsDolbyVision

----------------------------------------------------------------------------
(* getVendorId on every pair of bytes 8 and 9, and on inputs that end      *)
(* before byte 8 or byte 9.                                                *)

\* the input's bytes 8.. : both bytes, byte 8 only, or none
VidInputs ==
  { << b1, b2 >> : b1 \in 0..255, b2 \in 0..255 }
    \cup { << b1 >> : b1 \in 0..255 } \cup { << >> }

InitVid ==
  /\ MainInit
  /\ probe \in { [phase |-> "in", tail |-> t, bytes |-> Header \o t, vid |-> << >>] :
                   t \in VidInputs }

ApplyVid ==
  /\ probe.phase = "in"
  /\ probe' = [probe EXCEPT !.phase = "out", !.vid = getVendorId(probe.bytes)]
  /\ UNCHANGED mainVars

NextVid == ApplyVid

SpecVid == InitVid /\ [][NextVid]_vars

Letters == { abc[i] : i \in 2..Len(abc) }

\* C12: the vendor id is a string of exactly three characters, each an
\* uppercase letter A-Z, whatever bytes 8 and 9 hold and when they are missing.
C12_VendorIdThreeLetters ==
  probe.phase = "out" =>
    /\ Len(probe.vid) = 3
    /\ \A i \in 1..Len(probe.vid) : probe.vid[i] \in Letters

\* the 5-bit code of a letter: 1 = A ... 26 = Z
LetterCode(ch) == CHOOSE c \in 1..26 : abc[c + 1] = ch

\* the documented packing [0 LLLLL][LL LLLLL] of three letters
EncodeVid(vid) ==
  LET c1 == LetterCode(vid[1])
      c2 == LetterCode(vid[2])
      c3 == LetterCode(vid[3])
  IN  << c1 * 4 + c2 \div 8, (c2 % 8) * 32 + c3 >>

\* bytes 8 and 9 are present, bit 7 of byte 8 is 0 and the three codes are letters
EncodesThreeLetters(tail) ==
  /\ Len(tail) = 2 /\ tail[1] < 128
  /\ tail[1] \div 4 \in 1..26
  /\ (tail[1] % 4) * 8 + tail[2] \div 32 \in 1..26
  /\ tail[2] % 32 \in 1..26

\* C13: for a byte pair that packs three letter codes 1..26, the decoded
\* vendor id has three letters and packing it again gives the original pair.
C13_VidRoundTrip ==
  (probe.phase = "out" /\ EncodesThreeLetters(probe.tail)) =>
    /\ Len(probe.vid) = 3
    /\ \A i \in 1..3 : probe.vid[i] \in Letters
    /\ EncodeVid(probe.vid) = probe.tail

\* the pair 4C 2D was decoded to SAM, which packs to 4C 2D
C13_Witness ==
  /\ probe.phase = "out"
  /\ probe.tail = << 76, 45 >>
  /\ probe.vid = << "S", "A", "M" >>
  /\ EncodeVid(probe.vid) = << 76, 45 >>

----------------------------------------------------------------------------
(* The descriptor area of the base block: four 18-byte slots at 54..125,   *)
(* each a detailed timing or a display descriptor (first two bytes zero),  *)
(* with every value of the flags byte, in a complete and a cut-off image.  *)

\* 1920x1080 at 148.5 MHz; byte 17 is the flags byte
DtdSlot(flags) ==
  << 2, 58, 128, 24, 113, 56, 45, 64, 88, 44, 69, 0, 9, 37, 33, 0, 0, flags >>

\* a display descriptor (tag FC, monitor name)
DescSlot == << 0, 0, 0, 252, 0, 65, 66, 67, 10, 32, 32, 32, 32, 32, 32, 32, 32, 32 >>

SlotKinds == { "dtd", "desc" }

RECURSIVE SlotBytes(_, _, _)
SlotBytes(kinds, flags, i) ==
  IF i > Len(kinds) THEN << >>
  ELSE (IF kinds[i] = "dtd" THEN DtdSlot(flags) ELSE DescSlot)
       \o SlotBytes(kinds, flags, i + 1)

DescriptorImage(kinds, flags) ==
  Block(Header \o SeqOf(0, 10) \o << 1, 4 >> \o SeqOf(0, 34) \o SlotBytes(kinds, flags, 1), 0)

\* lengths of the image: complete, and ending inside the third slot's pixel clock
DtdImageLengths == { EDID_BLOCK_LENGTH, 91 }

InitDtd ==
  /\ MainInit
  /\ probe \in { [phase |-> "in", kinds |-> k, flags |-> f, length |-> n,
                  bytes |-> Slice(DescriptorImage(k, f), 0, n), dtds |-> << >>] :
                   k \in [1..4 -> SlotKinds], f \in 0..255, n \in DtdImageLengths }

\* parseBaseBlock: baseBlock.dtds = getDtds(reader, 54, 126)
ApplyDtd ==
  /\ probe.phase = "in"
  /\ probe' = [probe EXCEPT !.phase = "out",
                            !.dtds = parseBaseBlock(probe.bytes).baseBlock.dtds]
  /\ UNCHANGED mainVars

NextDtd == ApplyDtd

SpecDtd == InitDtd /\ [][NextDtd]_vars

Populated(field) == field # "undefined"

\* which member of each pair a sync type code populates
PopulatesVSyncPolarity(syncTypeCode) == syncTypeCode = SYNC_DIGITAL_SEPARATE
PopulatesHSyncPolarity(syncTypeCode) ==
  syncTypeCode \in { SYNC_DIGITAL_COMPOSITE, SYNC_DIGITAL_SEPARATE }

\* C14: in every decoded DTD exactly one of vSyncPolarity and vSyncSerrated is
\* populated and exactly one of hSyncPolarity and syncAllRGBLines is
\* populated, and which one is a function of the 2-bit syncTypeCode alone.
C14_SyncFieldsExclusive ==
  probe.phase = "out" =>
    \A i \in 1..Len(probe.dtds) :
      LET dtd == probe.dtds[i]
      IN  /\ dtd.syncTypeCode \in 0..3
          /\ Populated(dtd.vSyncPolarity) <=> ~Populated(dtd.vSyncSerrated)
          /\ Populated(dtd.hSyncPolarity) <=> ~Populated(dtd.syncAllRGBLines)
          /\ Populated(dtd.vSyncPolarity) <=> PopulatesVSyncPolarity(dtd.syncTypeCode)
          /\ Populated(dtd.hSyncPolarity) <=> PopulatesHSyncPolarity(dtd.syncTypeCode)

\* a DTD with sync type 3 (digital separate) was decoded with both polarities
\* populated and neither vSyncSerrated nor syncAllRGBLines
C14_Witness ==
  /\ probe.phase = "out"
  /\ probe.flags = 30
  /\ Len(probe.dtds) = 4
  /\ probe.dtds[1].syncTypeCode = SYNC_DIGITAL_SEPARATE
  /\ probe.dtds[1].vSyncPolarity = "true"
  /\ probe.dtds[1].hSyncPolarity = "true"
  /\ probe.dtds[1].vSyncSerrated = "undefined"
  /\ probe.dtds[1].syncAllRGBLines = "undefined"

\* the block-relative offset of slot i of the descriptor area
SlotOffset(i) == 54 + DTD_LENGTH * (i - 1)

\* C16: a slot whose first two bytes are zero does not end the scan of the
\* descriptor area: every slot of a complete base block whose pixel clock is
\* not zero is decoded as a DTD, whatever slots precede it.
C16_ZeroSlotDoesNotEndScan ==
  (probe.phase = "out" /\ probe.length = EDID_BLOCK_LENGTH) =>
    \A i \in 1..4 :
      probe.kinds[i] = "dtd" =>
        \E j \in 1..Len(probe.dtds) : probe.dtds[j].dtdOffset = SlotOffset(i)

----------------------------------------------------------------------------
(* isHeaderValid of the base block on inputs of 0..10 bytes and of a full *)
(* block: the header pattern, or the pattern with one byte replaced.       *)

HeaderByteValues == { 0, 1, 127, 254, 255 }

\* the header followed by two bytes, position `pos` (0-based) holding `value`
HeaderVariant(pos, value) ==
  [i \in 1..10 |-> IF i - 1 = pos THEN value
                   ELSE IF i <= 8 THEN Header[i] ELSE 0]

HeaderInputs ==
  { Slice(HeaderVariant(pos, v), 0, n) : pos \in 0..8, v \in HeaderByteValues, n \in 0..10 }
    \cup { HeaderVariant(pos, v) \o SeqOf(0, EDID_BLOCK_LENGTH - 10) :
             pos \in 0..8, v \in HeaderByteValues }

InitHeader ==
  /\ MainInit
  /\ probe \in { [phase |-> "in", bytes |-> b, isHeaderValid |-> FALSE] :
                   b \in HeaderInputs }

\* parseBaseBlock: baseBlock.isHeaderValid, which parseEdid also returns as
\* result.isHeaderValid
ApplyHeader ==
  /\ probe.phase = "in"
  /\ probe' = [probe EXCEPT !.phase = "out",
         !.isHeaderValid = parseBaseBlock(probe.bytes).baseBlock.isHeaderValid]
  /\ UNCHANGED mainVars

NextHeader == ApplyHeader

SpecHeader == InitHeader /\ [][NextHeader]_vars

\* the input has at least 8 bytes and bytes 0..7 are 00 FF FF FF FF FF FF 00
StartsWithHeader(bytes) ==
  /\ Len(bytes) >= 8
  /\ \A i \in 1..8 : bytes[i] = Header[i]

\* C15: isHeaderValid is true exactly when the input has at least 8 bytes and
\* bytes 0..7 are 00 FF FF FF FF FF FF 00.
C15_HeaderValidity ==
  probe.phase = "out" =>
    (probe.isHeaderValid <=> StartsWithHeader(probe.bytes))

\* an input of exactly the 8 header bytes was found valid
C15_Witness ==
  /\ probe.phase = "out"
  /\ probe.bytes = Header
  /\ probe.isHeaderValid

----------------------------------------------------------------------------
(* The standard display modes of a base block: one of the 8 slots at       *)
(* 38..53 holds a chosen byte pair, the others are all unused (01 01) or   *)
(* all hold one mode; the image is complete or ends inside the area.       *)

StdByte1Values == { 0, 1, 2, 129, 255 }
StdByte2Values == { 0, 1, 64, 193, 255 }
StdFillers == { << 1, 1 >>, << 209, 192 >> }
StdImageLengths == { EDID_BLOCK_LENGTH, 41, 40 }

RECURSIVE StdSlots(_, _, _, _)
StdSlots(k, pair, filler, i) ==
  IF i > 8 THEN << >>
  ELSE (IF i = k THEN pair ELSE filler) \o StdSlots(k, pair, filler, i + 1)

StdImage(k, pair, filler) ==
  Block(Header \o SeqOf(0, 10) \o << 1, 4 >> \o SeqOf(0, 18) \o StdSlots(k, pair, filler, 1), 0)

InitStd ==
  /\ MainInit
  /\ probe \in { [phase |-> "in", slot |-> k, pair |-> << b1, b2 >>,
                  bytes |-> Slice(StdImage(k, << b1, b2 >>, fl), 0, n),
                  modes |-> << >>] :
                   k \in 1..8, b1 \in StdByte1Values, b2 \in StdByte2Values,
                   fl \in StdFillers, n \in StdImageLengths }

\* parseBaseBlock: baseBlock.standardDisplayModes = getStandardDisplayModes(reader)
ApplyStd ==
  /\ probe.phase = "in"
  /\ probe' = [probe EXCEPT !.phase = "out",
         !.modes = parseBaseBlock(probe.bytes).baseBlock.standardDisplayModes]
  /\ UNCHANGED mainVars

NextStd == ApplyStd

SpecStd == InitStd /\ [][NextStd]_vars

\* the slots (1..8) both of whose bytes are present in the input
PresentSlots(bytes) ==
  { i \in 1..8 : STD_DISPLAY_MODES_START + 2 * (i - 1) + 1 < Len(bytes) }

SlotByte(bytes, i, j) == bytes[STD_DISPLAY_MODES_START + 2 * (i - 1) + j]

\* the modes the claim requires: one per present slot that is not 01 01, in order
RECURSIVE ExpectedModes(_, _)
ExpectedModes(bytes, i) ==
  IF i \notin PresentSlots(bytes) THEN << >>
  ELSE LET byte1 == SlotByte(bytes, i, 1)
           byte2 == SlotByte(bytes, i, 2)
       IN  (IF byte1 = 1 /\ byte2 = 1 THEN << >>
            ELSE << [xResolutionPx |-> (byte1 + 31) * 8,
                     vertFreqHz |-> (byte2 % 64) + 60] >>)
           \o ExpectedModes(bytes, i + 1)

ResolutionAndFrequency(modes) ==
  [i \in 1..Len(modes) |-> [xResolutionPx |-> modes[i].xResolutionPx,
                            vertFreqHz |-> modes[i].vertFreqHz]]

\* C17: a standard-display-mode slot is skipped only if both its bytes are
\* 0x01; every other slot, one with exactly one byte 0x01 included, is decoded
\* into a mode with xResolutionPx = (byte1 + 31) * 8 and
\* vertFreqHz = (byte2 & 0x3F) + 60.
C17_SkippedOnlyIfBothUnused ==
  probe.phase = "out" =>
    ResolutionAndFrequency(probe.modes) = ExpectedModes(probe.bytes, 1)

----------------------------------------------------------------------------
(* The DTDs of a CTA extension block, for every dtdStart 0..127 and 255.   *)
(* The block holds audio data blocks in [4, dtdStart), then detailed       *)
(* timings up to byte 126 or a number of them followed by zero padding;    *)
(* a second extension block follows it or not.                             *)

DtdStartValues == 0..127 \cup { 255 }

\* how many timings precede the zero padding; 8 of them reach past byte 126
DtdCounts == { 0, 1, 2, 8 }

\* byte `i` (0-based) of the block's bytes 4..126
CtaDtdByte(d, count, i) ==
  IF i < d THEN 63
  ELSE IF (i - d) \div DTD_LENGTH < count
    THEN DtdSlot(30)[((i - d) % DTD_LENGTH) + 1]
  ELSE 0

CtaDtdBlock(d, count) ==
  Block(<< CTA_EXTENSION_TAG, 3, d, 240 >> \o [j \in 1..123 |-> CtaDtdByte(d, count, j + 3)], 0)

\* the block after it: an extension with an unassigned tag
FollowingBlock == Block(<< 16, 30, 7, 7 >>, 0)

InitCtaDtd ==
  /\ MainInit
  /\ probe \in { [phase |-> "in", dtdStart |-> d, count |-> c, followed |-> f,
                  bytes |-> BaseImage(TRUE, IF f THEN 2 ELSE 1, 0) \o CtaDtdBlock(d, c)
                            \o (IF f THEN FollowingBlock ELSE << >>),
                  dtds |-> << >>] :
                   d \in DtdStartValues, c \in DtdCounts, f \in BOOLEAN }

\* parseCtaExtension on extension block 1
ApplyCtaDtd ==
  /\ probe.phase = "in"
  /\ probe' = [probe EXCEPT !.phase = "out",
         !.dtds = parseExtensionBlock(probe.bytes, 0, EmptyContext).ext.dtds]
  /\ UNCHANGED mainVars

NextCtaDtd == ApplyCtaDtd

SpecCtaDtd == InitCtaDtd /\ [][NextCtaDtd]_vars

\* C18: every DTD decoded from a CTA extension block is read from that block
\* at relative offsets within [dtdStart, 126): for no dtdStart does decoding
\* read the block's bytes 126, 127 or a byte of another block.
C18_DtdReadsWithinBlock ==
  probe.phase = "out" =>
    \A i \in 1..Len(probe.dtds) :
      /\ probe.dtds[i].dtdOffset >= probe.dtdStart
      /\ probe.dtds[i].lastOffset < 126

----------------------------------------------------------------------------
(* The primary scan of a data block collection, one header per step, for   *)
(* every dtdStart in 5..4+MaxScanLength and every content of the bytes     *)
(* 4..3+MaxScanLength drawn from: a zero-length RESERVED block, an AUDIO   *)
(* block of length 1, a VIDEO block of length 31 (overrunning dtdStart)    *)
(* and a block of length 1 with the unassigned tag 5.  The image is        *)
(* complete or ends after byte 5 of the extension block.                   *)

ScanHeaderBytes == { 0, 33, 95, 161 }

ScanContents == [1..MaxScanLength -> ScanHeaderBytes]

ScanImage(d, content) ==
  BaseImage(TRUE, 1, 0) \o Block(<< CTA_EXTENSION_TAG, 3, d, 240 >> \o content, 0)

ScanImageLengths == { 2 * EDID_BLOCK_LENGTH, EDID_BLOCK_LENGTH + 6 }

InitScan ==
  /\ MainInit
  /\ probe \in { [phase |-> "scan", dtdStart |-> d,
                  bytes |-> Slice(ScanImage(d, c), 0, n),
                  st |-> ScanInit(EmptyContext),
                  headers |-> << >>] :
                   d \in (START_DATA_BLOCK + 1)..(START_DATA_BLOCK + MaxScanLength),
                   c \in ScanContents, n \in ScanImageLengths }

\* one iteration of the primary scan; `headers` records the offset it read
ScanHeader ==
  /\ probe.phase = "scan"
  /\ ScanContinues(probe.bytes, EDID_BLOCK_LENGTH, probe.dtdStart, probe.st)
  /\ probe' = [probe EXCEPT
       !.st = ScanStep(probe.bytes, EDID_BLOCK_LENGTH, 1, probe.st),
       !.headers = Append(@, probe.st.index)]
  /\ UNCHANGED mainVars

\* the end of the primary scan, and the recovery scan
ScanFinish ==
  /\ probe.phase = "scan"
  /\ ~ScanContinues(probe.bytes, EDID_BLOCK_LENGTH, probe.dtdStart, probe.st)
  /\ probe' = [probe EXCEPT
       !.phase = "done",
       !.st = RecoveryScan(probe.bytes, EDID_BLOCK_LENGTH, START_DATA_BLOCK,
                           probe.dtdStart, probe.st)]
  /\ UNCHANGED mainVars

NextScan == ScanHeader \/ ScanFinish

SpecScan == InitScan /\ [][NextScan]_vars

\* the header byte at block-relative offset `off` of extension block 1
HeaderAt(off) == probe.bytes[EDID_BLOCK_LENGTH + off + 1]

InInput(off) == EDID_BLOCK_LENGTH + off < Len(probe.bytes)

\* the offset after the last header read: where the next header would be
NextHeaderOffset ==
  IF probe.headers = << >> THEN START_DATA_BLOCK
  ELSE LET last == probe.headers[Len(probe.headers)]
       IN  last + (HeaderAt(last) % 32) + 1

\* C19: the scan reads its first header at offset 4 and each next header at
\* the previous header's offset plus its 5-bit length plus 1; every header it
\* reads lies below dtdStart and inside the input; it stops as soon as the
\* next offset is >= dtdStart or beyond the input; and it reads at most
\* dtdStart - 4 headers, whatever the bytes are.
C19_ScanTerminates ==
  /\ Len(probe.headers) <= probe.dtdStart - START_DATA_BLOCK
  /\ \A i \in 1..Len(probe.headers) :
       /\ probe.headers[i] < probe.dtdStart
       /\ InInput(probe.headers[i])
       /\ i = 1 => probe.headers[i] = START_DATA_BLOCK
       /\ i > 1 => probe.headers[i] =
                     probe.headers[i - 1] + (HeaderAt(probe.headers[i - 1]) % 32) + 1
  /\ probe.phase = "done" =>
       (NextHeaderOffset >= probe.dtdStart \/ ~InInput(NextHeaderOffset))
  /\ probe.phase = "scan" =>
       ((NextHeaderOffset >= probe.dtdStart \/ ~InInput(NextHeaderOffset))
          <=> ~ENABLED ScanHeader)

\* a scan over zero-length blocks only ended after exactly dtdStart - 4
\* headers, the largest dtdStart being used
C19_Witness ==
  /\ probe.phase = "done"
  /\ probe.dtdStart = START_DATA_BLOCK + MaxScanLength
  /\ Len(probe.headers) = probe.dtdStart - START_DATA_BLOCK
  /\ \A i \in 1..Len(probe.headers) : HeaderAt(probe.headers[i]) = 0

RecognisedTags ==
  { TAG_AUDIO, TAG_VIDEO, TAG_VENDOR_SPECIFIC, TAG_SPEAKER_ALLOCATION, TAG_EXTENDED_TAG }

\* the visited headers whose 3-bit tag is not recognised
UnknownHeaders ==
  { i \in 1..Len(probe.headers) : HeaderAt(probe.headers[i]) \div 32 \notin RecognisedTags }

\* C20: each visited header with an unrecognised tag produces exactly one
\* unknown_data_block warning (at its offset) and no entry of the collection:
\* the collection's length is the number of recognised headers visited.
C20_UnknownBlockNoEntry ==
  /\ Len(probe.st.warns) = Cardinality(UnknownHeaders)
  /\ \A i \in UnknownHeaders :
       Cardinality({ w \in 1..Len(probe.st.warns) :
                       /\ probe.st.warns[w].code = "unknown_data_block"
                       /\ probe.st.warns[w].offset = probe.headers[i] }) = 1
  /\ Len(probe.st.coll) = Len(probe.headers) - Cardinality(UnknownHeaders)

----------------------------------------------------------------------------
(* The recovery scan of a data block collection, for every dtdStart in     *)
(* 5..4+MaxScanLength and every content of the bytes 4..3+MaxScanLength    *)
(* drawn from extended-tag headers of length 0, 1 and 3, the SCDB code     *)
(* 0x79 and an AUDIO header of length 1 (which misaligns what follows).    *)

RecoveryBytes == { 224, 225, 227, EXT_HDMI_FORUM_SCDB, 33 }

RecoveryContents == [1..MaxScanLength -> RecoveryBytes]

InitRecovery ==
  /\ MainInit
  /\ probe \in { [phase |-> "in", dtdStart |-> d, bytes |-> ScanImage(d, c),
                  primary |-> << >>, coll |-> << >>] :
                   d \in (START_DATA_BLOCK + 1)..(START_DATA_BLOCK + MaxScanLength),
                   c \in RecoveryContents }

\* parseDataBlockCollection; `primary` is the collection before the recovery scan
ApplyRecovery ==
  /\ probe.phase = "in"
  /\ probe' = [probe EXCEPT
       !.phase = "out",
       !.primary = ScanLoop(probe.bytes, EDID_BLOCK_LENGTH, 1, probe.dtdStart,
                            ScanInit(EmptyContext)).coll,
       !.coll = parseDataBlockCollection(probe.bytes, EDID_BLOCK_LENGTH, 1,
                                         probe.dtdStart, EmptyContext).coll]
  /\ UNCHANGED mainVars

NextRecovery == ApplyRecovery

SpecRecovery == InitRecovery /\ [][NextRecovery]_vars

\* the offsets in [4, dtdStart) holding an extended-tag header followed by 0x79
ScdbHeaderOffsets ==
  { off \in START_DATA_BLOCK..(probe.dtdStart - 1) :
      /\ HeaderAt(off) \div 32 = TAG_EXTENDED_TAG
      /\ HeaderAt(off + 1) = EXT_HDMI_FORUM_SCDB }

\* C21: if the primary scan produced an SCDB block the recovery scan adds
\* nothing; otherwise it appends exactly one SCDB record, decoded at the
\* lowest offset in [4, dtdStart) that holds an extended-tag header followed
\* by the byte 0x79, whatever the header's length field, and nothing if there
\* is no such offset.
C21_RecoveryScan ==
  probe.phase = "out" =>
    IF HasScdb(probe.primary) \/ ScdbHeaderOffsets = {}
      THEN probe.coll = probe.primary
      ELSE /\ Len(probe.coll) = Len(probe.primary) + 1
           /\ SubSeq(probe.coll, 1, Len(probe.primary)) = probe.primary
           /\ LET scdb == probe.coll[Len(probe.coll)]
              IN  /\ isExtendedTagBlock(scdb)
                  /\ scdb.extendedTag = EXT_HDMI_FORUM_SCDB
                  /\ scdb.dataLength = HeaderAt(SetMin(ScdbHeaderOffsets)) % 32

----------------------------------------------------------------------------
(* A YCbCr420 Capability Map after a video block of 3 or 10 descriptors    *)
(* (VICs 1, 2, 3, ...): every value of the first capability byte, and a    *)
(* second capability byte that selects indices within and beyond the list. *)

CapSvdCounts == { 3, 10 }
CapSecondBytes == { 0, 1, 2, 3, 4, 128 }

CapVideoBlock(n) == << 64 + n >> \o [i \in 1..n |-> i]

CapImage(n, b1, b2) ==
  BaseImage(TRUE, 1, 0)
  \o CtaBlock(CapVideoBlock(n) \o << 227, EXT_YCBCR420_CAPABILITY_MAP, b1, b2 >>, 0, 0)

InitCap ==
  /\ MainInit
  /\ probe \in { [phase |-> "in", bitmap |-> << b1, b2 >>,
                  bytes |-> CapImage(n, b1, b2), dtdStart |-> START_DATA_BLOCK + n + 5,
                  svds |-> << >>, capable |-> << >>] :
                   n \in CapSvdCounts, b1 \in 0..255, b2 \in CapSecondBytes }

\* parseDataBlockCollection on the video block followed by the capability map
ApplyCap ==
  /\ probe.phase = "in"
  /\ LET coll == parseDataBlockCollection(probe.bytes, EDID_BLOCK_LENGTH, 1,
                                          probe.dtdStart, EmptyContext).coll
     IN  probe' = [probe EXCEPT
           !.phase = "out",
           !.svds = coll[1].shortVideoDescriptors,
           !.capable = coll[2].YCbCr420CapableShortVideoDescriptors]
  /\ UNCHANGED mainVars

NextCap == ApplyCap

SpecCap == InitCap /\ [][NextCap]_vars

\* the indices 8k + j whose bit j of capability byte k (k from 0) is set
SetBitIndices(bitmap) ==
  { 8 * (k - 1) + j : k \in 1..Len(bitmap), j \in 0..7 } \cap
  { idx \in 0..(8 * Len(bitmap) - 1) :
      (bitmap[(idx \div 8) + 1] \div Pow2(idx % 8)) % 2 = 1 }

RECURSIVE Ascending(_)
Ascending(S) == IF S = {} THEN << >> ELSE << SetMin(S) >> \o Ascending(S \ { SetMin(S) })

----------------------------------------------------------------------------
(* The extension loop of one parseEdid call on two CTA extensions whose    *)
(* collections are every sequence of up to MaxDataBlocks blocks drawn from *)
(* two video blocks (VICs 1 and 2, 3) and a capability map with every bit  *)
(* of its byte set.                                                        *)

CtxKinds == << << 65, 1 >>, << 66, 2, 3 >>, << 226, EXT_YCBCR420_CAPABILITY_MAP, 255 >> >>
CtxMapKind == Len(CtxKinds)
CtxSequences == UNION { [1..n -> 1..Len(CtxKinds)] : n \in 0..MaxDataBlocks }

RECURSIVE CtxFlatten(_, _)
CtxFlatten(seq, i) ==
  IF i > Len(seq) THEN << >> ELSE CtxKinds[seq[i]] \o CtxFlatten(seq, i + 1)

CtxImage(kinds) ==
  BaseImage(TRUE, 2, 0) \o CtaBlock(CtxFlatten(kinds[1], 1), 0, 0)
                        \o CtaBlock(CtxFlatten(kinds[2], 1), 0, 0)

InitCtx ==
  /\ MainInit
  /\ probe \in { [kinds |-> << s1, s2 >>, bytes |-> CtxImage(<< s1, s2 >>),
                  st |-> [extIndex |-> 0, extensions |-> << >>,
                          context |-> EmptyContext, warnings |-> << >>]] :
                   s1 \in CtxSequences, s2 \in CtxSequences }

\* one iteration of the for loop of parseExtensions
StepCtx ==
  /\ ExtensionLoopContinues(probe.bytes, actualExtensionCount(probe.bytes),
                            probe.st.extIndex)
  /\ probe' = [probe EXCEPT !.st = ExtensionStep(probe.bytes, probe.st)]
  /\ UNCHANGED mainVars

NextCtx == StepCtx

SpecCtx == InitCtx /\ [][NextCtx]_vars

\* the descriptors of the video blocks at positions lo..hi of a collection
RECURSIVE VideoSvds(_, _, _)
VideoSvds(seq, lo, hi) ==
  IF lo > hi THEN << >>
  ELSE (IF seq[lo] = CtxMapKind THEN << >>
        ELSE [i \in 1..(Len(CtxKinds[seq[lo]]) - 1) |->
                ShortVideoDescriptor(CtxKinds[seq[lo]][i + 1])])
       \o VideoSvds(seq, lo + 1, hi)

HasVideo(seq, hi) == \E i \in 1..hi : i <= Len(seq) /\ seq[i] # CtxMapKind

\* the video block a map at position p of extension e has to be resolved
\* against: the video blocks before it in its extension, merged; failing
\* that, the merged video blocks of the latest earlier extension with one
ReferencedVideo(kinds, e, p) ==
  IF HasVideo(kinds[e], p - 1)
    THEN [defined |-> TRUE, svds |-> VideoSvds(kinds[e], 1, p - 1)]
  ELSE IF e = 2 /\ HasVideo(kinds[1], Len(kinds[1]))
    THEN [defined |-> TRUE, svds |-> VideoSvds(kinds[1], 1, Len(kinds[1]))]
  ELSE [defined |-> FALSE, svds |-> << >>]

IsSvd(d) == d # UndefinedSvd

\* C23: every capability map decoded so far is resolved against the video
\* block most recently decoded before it in scan order within the call (the
\* merged block of its extension, else that of an earlier extension), and a
\* map decoded before any video block has no capable-descriptor list.
C23_MapUsesLastVideoBlock ==
  \A e \in 1..Len(probe.st.extensions) :
    \A p \in 1..Len(probe.kinds[e]) :
      probe.kinds[e][p] = CtxMapKind =>
        LET blk == probe.st.extensions[e].dataBlockCollection[p]
            ref == ReferencedVideo(probe.kinds, e, p)
        IN  /\ blk.extendedTag = EXT_YCBCR420_CAPABILITY_MAP
            /\ blk.hasCapableSvds = ref.defined
            /\ SelectSeq(blk.YCbCr420CapableShortVideoDescriptors, IsSvd) = ref.svds

\* both cases at once: the first extension holds two video blocks with a
\* map after them, the second a map and nothing before it; a third map
\* precedes every video block
C23_Witness ==
  /\ Len(probe.st.extensions) = 2
  /\ probe.kinds = << << 3, 1, 2 >>, << 3 >> >>
  /\ ~probe.st.extensions[1].dataBlockCollection[1].hasCapableSvds
  /\ probe.st.extensions[2].dataBlockCollection[1].hasCapableSvds
  /\ Len(SelectSeq(probe.st.extensions[2].dataBlockCollection[1]
                     .YCbCr420CapableShortVideoDescriptors, IsSvd)) = 3

----------------------------------------------------------------------------
(* The serial number of base blocks whose bytes 12..15 take the values 0,  *)
(* 1, 128 and 255, and of inputs that end within those bytes.              *)

SerialByteValues == { 0, 1, 128, 255 }
SerialTails == UNION { [1..n -> SerialByteValues] : n \in 0..4 }

InitSerial ==
  /\ MainInit
  /\ probe \in { [phase |-> "in", tail |-> t, bytes |-> Header \o << 4, 33, 7, 9 >> \o t,
                  serialNumberInt |-> 0] : t \in SerialTails }

ApplySerial ==
  /\ probe.phase = "in"
  /\ probe' = [probe EXCEPT !.phase = "out",
                            !.serialNumberInt = getSerialNumberInt(probe.bytes)]
  /\ UNCHANGED mainVars

NextSerial == ApplySerial

SpecSerial == InitSerial /\ [][NextSerial]_vars

\* byte 12 + i of the input, 0 when the input ends before it
SerialByte(i) == IF i + 1 <= Len(probe.tail) THEN probe.tail[i + 1] ELSE 0

\* C24: serialNumberInt is b12 + 256 * b13 + 65536 * b14 + 16777216 * b15, the
\* unsigned little-endian reading of bytes 12..15: a non-negative number
\* whose low 24 bits are b12 + 256 * b13 + 65536 * b14 and whose quotient by
\* 16777216 is b15.
C24_SerialNumberUnsigned ==
  probe.phase = "out" =>
    /\ probe.serialNumberInt >= 0
    /\ probe.serialNumberInt % Pow2(24) =
         SerialByte(0) + 256 * SerialByte(1) + 65536 * SerialByte(2)
    /\ probe.serialNumberInt \div Pow2(24) = SerialByte(3)

----------------------------------------------------------------------------
(* The bit depth of the summary for collections of up to MaxDataBlocks     *)
(* blocks drawn from HDMI 1.4 vendor blocks (deep-color flags), HDMI Forum *)
(* vendor blocks (short: Y420 deep-color flags; long: compressed-video     *)
(* flags) and HDMI Forum SCDBs (compressed-video flags).  `depth` is the   *)
(* depth the block's flags stand for, 8 when it carries none.              *)

Hdmi14Blk(flags) == << 102, 3, 12, 0, 16, 0, flags >>
ForumShortBlk(y420) == << 103, 216, 93, 196, 1, 60, 0, y420 >>
ForumLongBlk(frl, features, vrrLo, vrrHi, dsc) ==
  << 107, 216, 93, 196, 1, 60, 0, frl, features, vrrLo, vrrHi, dsc >>
ScdbBlk(frl, features, vrrLo, vrrHi, dsc) ==
  << 233, EXT_HDMI_FORUM_SCDB, 1, 60, 0, frl, features, vrrLo, vrrHi, dsc >>

DepthCatalog ==
  << [bytes |-> Hdmi14Blk(0), depth |-> 8],
     [bytes |-> Hdmi14Blk(16), depth |-> 10],
     [bytes |-> Hdmi14Blk(32), depth |-> 12],
     [bytes |-> Hdmi14Blk(64), depth |-> 16],
     [bytes |-> ForumShortBlk(1), depth |-> 10],
     [bytes |-> ForumShortBlk(4), depth |-> 16],
     [bytes |-> ForumLongBlk(0, 0, 0, 0, 0), depth |-> 8],
     [bytes |-> ForumLongBlk(0, 0, 0, 0, 2), depth |-> 12],
     [bytes |-> ScdbBlk(0, 0, 0, 0, 1), depth |-> 10],
     [bytes |-> ScdbBlk(0, 0, 0, 0, 4), depth |-> 16] >>

DepthSequences == UNION { [1..n -> 1..Len(DepthCatalog)] : n \in 0..MaxDataBlocks }

RECURSIVE DepthFlatten(_, _)
DepthFlatten(f, i) ==
  IF i > Len(f) THEN << >> ELSE DepthCatalog[f[i]].bytes \o DepthFlatten(f, i + 1)

InitDepth ==
  /\ MainInit
  /\ probe \in { [phase |-> "in", kinds |-> f,
                  bytes |-> BaseImage(TRUE, 1, 0) \o CtaBlock(DepthFlatten(f, 1), 0, 0),
                  maxInputSignalBitDepth |-> 0] : f \in DepthSequences }

\* the extension block is decoded and the summary built from it
ApplyDepth ==
  /\ probe.phase = "in"
  /\ LET ext == parseExtensionBlock(probe.bytes, 0, EmptyContext).ext
         base == parseBaseBlock(probe.bytes)
         features == buildFeatureSupport(base.baseBlock, << ext >>,
                                         base.basicDisplayParams, base.nativeResolution)
     IN  probe' = [probe EXCEPT
           !.phase = "out",
           !.maxInputSignalBitDepth = features.maxInputSignalBitDepth]
  /\ UNCHANGED mainVars

NextDepth == ApplyDepth

SpecDepth == InitDepth /\ [][NextDepth]_vars

\* the largest depth a block of the input stands for, 8 if there is none
LargestDepth(kinds) ==
  CHOOSE d \in { 8 } \cup { DepthCatalog[kinds[i]].depth : i \in 1..Len(kinds) } :
    \A i \in 1..Len(kinds) : DepthCatalog[kinds[i]].depth <= d

\* C25: maxInputSignalBitDepth is one of 8, 10, 12, 16 and is the largest
\* depth any deep-color signal of any block stands for (classic deep-color
\* flags, Y420 deep-color flags, compressed-video flags of a vendor block or
\* of an SCDB), 8 without one, whatever the order of the blocks.
C25_LargestSignalledDepth ==
  probe.phase = "out" =>
    /\ probe.maxInputSignalBitDepth \in { 8, 10, 12, 16 }
    /\ probe.maxInputSignalBitDepth = LargestDepth(probe.kinds)

----------------------------------------------------------------------------
(* The HDMI version of the summary for two CTA extensions: the first block *)
(* of a sequence of up to MaxDataBlocks blocks is in the first extension,  *)
(* the others are in the second.  `version` is the version a block stands  *)
(* for, in tenths, Undefined when it carries no version signal.            *)

ScdbShortBlk == << 226, EXT_HDMI_FORUM_SCDB, 1 >>
VideoCapBlk(flags) == << 227, EXT_VIDEO_CAPABILITY, 0, flags >>

VersionCatalog ==
  << [bytes |-> Hdmi14Blk(0), version |-> 14],
     [bytes |-> ForumShortBlk(0), version |-> 20],
     [bytes |-> ForumLongBlk(0, 0, 0, 0, 0), version |-> 21],
     [bytes |-> ScdbShortBlk, version |-> 20],
     [bytes |-> ScdbBlk(48, 0, 0, 0, 0), version |-> 21],
     [bytes |-> VideoCapBlk(128), version |-> 21],
     [bytes |-> VideoCapBlk(4), version |-> 21],
     [bytes |-> VideoCapBlk(64), version |-> Undefined],
     [bytes |-> AudioBlk, version |-> Undefined] >>

VersionSequences == UNION { [1..n -> 1..Len(VersionCatalog)] : n \in 0..MaxDataBlocks }

RECURSIVE VersionFlatten(_, _, _)
VersionFlatten(f, i, last) ==
  IF i > last THEN << >>
  ELSE VersionCatalog[f[i]].bytes \o VersionFlatten(f, i + 1, last)

VersionImage(f) ==
  BaseImage(TRUE, 2, 0) \o CtaBlock(VersionFlatten(f, 1, Min(1, Len(f))), 0, 0)
                        \o CtaBlock(VersionFlatten(f, 2, Len(f)), 0, 0)

InitVersion ==
  /\ MainInit
  /\ probe \in { [phase |-> "in", kinds |-> f, bytes |-> VersionImage(f),
                  hdmiVersion |-> Undefined] : f \in VersionSequences }

\* both extension blocks are decoded and the summary built from them
ApplyVersion ==
  /\ probe.phase = "in"
  /\ LET base == parseBaseBlock(probe.bytes)
         st == parseExtensions(probe.bytes, actualExtensionCount(probe.bytes),
                 [extIndex |-> 0, extensions |-> << >>, context |-> EmptyContext,
                  warnings |-> << >>])
         features == buildFeatureSupport(base.baseBlock, st.extensions,
                                         base.basicDisplayParams, base.nativeResolution)
     IN  probe' = [probe EXCEPT !.phase = "out", !.hdmiVersion = features.hdmiVersion]
  /\ UNCHANGED mainVars

NextVersion == ApplyVersion

SpecVersion == InitVersion /\ [][NextVersion]_vars

\* the versions the blocks of the input stand for
SignalledVersions(kinds) ==
  { VersionCatalog[kinds[i]].version : i \in 1..Len(kinds) } \ { Undefined }

\* C26: hdmiVersion is the largest of the versions the blocks stand for (HDMI
\* 1.4 vendor block: 1.4; HDMI Forum vendor block or SCDB: 2.0, or 2.1 with a
\* forum payload; Video Capability QMS/ALLM flag: 2.1), in every order of the
\* blocks and extensions, and is absent when no block carries a signal.
C26_LargestSignalledVersion ==
  probe.phase = "out" =>
    IF SignalledVersions(probe.kinds) = {}
      THEN probe.hdmiVersion = Undefined
      ELSE /\ probe.hdmiVersion \in SignalledVersions(probe.kinds)
           /\ \A v \in SignalledVersions(probe.kinds) : v <= probe.hdmiVersion

\* a forum block in the first extension, then an HDMI 1.4 block and a short
\* SCDB in the second: the later, lower versions did not lower 2.1
C26_Witness ==
  /\ probe.phase = "out"
  /\ probe.kinds = << 3, 1, 4 >>
  /\ probe.hdmiVersion = 21

----------------------------------------------------------------------------
(* The refresh ranges of the summary.  The base block has no standard      *)
(* display mode or one of 75 Hz, no DTD or one of 60 Hz or of 0.25 Hz, and *)
(* the preferred-timing flag set or not; the CTA extension holds up to     *)
(* MaxDataBlocks blocks with variable-refresh bounds.                      *)

\* an 18-byte DTD: the pixel clock in units of 10 kHz, active and blanking
\* counts, and a display size of 600 mm x 340 mm
TimingDescriptor(clock, hActive, hBlank, vActive, vBlank) ==
  << clock % 256, clock \div 256,
     hActive % 256, hBlank % 256, (hActive \div 256) * 16 + hBlank \div 256,
     vActive % 256, vBlank % 256, (vActive \div 256) * 16 + vBlank \div 256,
     0, 0, 0, 0, 88, 84, 33, 0, 0, 0 >>

\* `rate` is the refresh rate of the timing as the fraction num / den
RateDtds ==
  << [bytes |-> SeqOf(0, 18), present |-> FALSE, num |-> 0, den |-> 1],
     [bytes |-> TimingDescriptor(14850, 1920, 280, 1080, 45), present |-> TRUE,
      num |-> 148500000, den |-> 2200 * 1125],
     [bytes |-> TimingDescriptor(1, 200, 0, 200, 0), present |-> TRUE,
      num |-> 10000, den |-> 200 * 200] >>

\* the eight standard-mode slots: unused (01 01), or the first one 75 Hz
RateModes ==
  << [bytes |-> [i \in 1..16 |-> 1], hz |-> Undefined],
     [bytes |-> << 129, 15 >> \o [i \in 1..14 |-> 1], hz |-> 75] >>

\* `min` and `max` are the bounds the block carries, Undefined for none
VrrCatalog ==
  << [bytes |-> ForumLongBlk(0, 0, 48, 120, 0), min |-> 48, max |-> 120],
     [bytes |-> ForumLongBlk(0, 0, 30, 0, 0), min |-> 30, max |-> Undefined],
     [bytes |-> ScdbBlk(0, 0, 0, 144, 0), min |-> Undefined, max |-> 144],
     [bytes |-> ScdbBlk(0, 0, 62, 40, 0), min |-> 62, max |-> 40] >>

VrrSequences == UNION { [1..n -> 1..Len(VrrCatalog)] : n \in 0..MaxDataBlocks }

RECURSIVE VrrFlatten(_, _)
VrrFlatten(f, i) ==
  IF i > Len(f) THEN << >> ELSE VrrCatalog[f[i]].bytes \o VrrFlatten(f, i + 1)

\* a base block of EDID 1.4 with one extension: feature byte 24, standard
\* modes at 38, first descriptor at 54
RateBase(features, modes, dtd) ==
  Block(Header \o SeqOf(0, 10) \o << 1, 4 >> \o SeqOf(0, 4) \o << features >>
        \o SeqOf(0, 13) \o modes \o dtd \o SeqOf(0, 54) \o << 1 >>, 0)

InitRates ==
  /\ MainInit
  /\ probe \in { [phase |-> "in", preferred |-> p, mode |-> m, dtd |-> d, kinds |-> f,
                  bytes |-> RateBase(IF p THEN 2 ELSE 0, RateModes[m].bytes,
                                     RateDtds[d].bytes)
                            \o CtaBlock(VrrFlatten(f, 1), 0, 0),
                  minSrrHz |-> 0, maxSrrHz |-> 0,
                  minVrrHz |-> Undefined, maxVrrHz |-> Undefined] :
                   p \in BOOLEAN, m \in 1..Len(RateModes), d \in 1..Len(RateDtds),
                   f \in VrrSequences }

\* the extension block is decoded and the summary built from it
ApplyRates ==
  /\ probe.phase = "in"
  /\ LET ext == parseExtensionBlock(probe.bytes, 0, EmptyContext).ext
         base == parseBaseBlock(probe.bytes)
         features == buildFeatureSupport(base.baseBlock, << ext >>,
                                         base.basicDisplayParams, base.nativeResolution)
     IN  probe' = [probe EXCEPT !.phase = "out",
                                !.minSrrHz = features.minSrrHz,
                                !.maxSrrHz = features.maxSrrHz,
                                !.minVrrHz = features.minVrrHz,
                                !.maxVrrHz = features.maxVrrHz]
  /\ UNCHANGED mainVars

NextRates == ApplyRates

SpecRates == InitRates /\ [][NextRates]_vars

\* C27: a reported variable-refresh bound lies within the reported static
\* range: minSrrHz <= minVrrHz when minVrrHz is defined, and maxSrrHz >=
\* maxVrrHz when maxVrrHz is defined.
C27_StaticRangeIncludesVrr ==
  probe.phase = "out" =>
    /\ probe.minVrrHz # Undefined => probe.minSrrHz <= probe.minVrrHz
    /\ probe.maxVrrHz # Undefined => probe.maxSrrHz >= probe.maxVrrHz

\* a 75 Hz standard mode and a block with the bounds 48 and 120: the static
\* range 75..75 was widened to 48..120
C27_Witness ==
  /\ probe.phase = "out"
  /\ probe.mode = 2 /\ probe.dtd = 1 /\ probe.kinds = << 1 >>
  /\ probe.minVrrHz = 48 /\ probe.maxVrrHz = 120
  /\ probe.minSrrHz = 48 /\ probe.maxSrrHz = 120

\* the input carries a variable-refresh bound
VrrBoundFound ==
  \E i \in 1..Len(probe.kinds) :
    VrrCatalog[probe.kinds[i]].min # Undefined \/ VrrCatalog[probe.kinds[i]].max # Undefined

\* the input carries a positive refresh rate: a standard mode or a DTD
PositiveRateFound == RateModes[probe.mode].hz # Undefined \/ RateDtds[probe.dtd].present

\* the input carries a refresh rate that rounds to 1 Hz or more
RoundedRateFound ==
  \/ RateModes[probe.mode].hz # Undefined
  \/ RateDtds[probe.dtd].present /\ 2 * RateDtds[probe.dtd].num >= RateDtds[probe.dtd].den

FiniteRange ==
  /\ probe.minSrrHz \in Nat /\ probe.minSrrHz # Infinity
  /\ probe.maxSrrHz \in Nat /\ probe.maxSrrHz # Infinity
  /\ probe.minSrrHz <= probe.maxSrrHz

\* C30 as stated: minSrrHz and maxSrrHz are finite non-negative integers
\* with minSrrHz <= maxSrrHz, and both are 0 exactly when the input has no
\* positive refresh rate and no variable-refresh bound.
C30_ZeroRangeIffNoRate ==
  probe.phase = "out" =>
    /\ FiniteRange
    /\ (probe.minSrrHz = 0 /\ probe.maxSrrHz = 0) <=> (~PositiveRateFound /\ ~VrrBoundFound)

\* C30 amended: minSrrHz and maxSrrHz are finite non-negative integers with
\* minSrrHz <= maxSrrHz, and both are 0 exactly when the input has no
\* refresh rate that rounds to 1 Hz or more and no variable-refresh bound.
C30_ZeroRangeIffNoRoundedRate ==
  probe.phase = "out" =>
    /\ FiniteRange
    /\ (probe.minSrrHz = 0 /\ probe.maxSrrHz = 0) <=> (~RoundedRateFound /\ ~VrrBoundFound)

\* a DTD of 0.25 Hz and nothing else: the range is 0..0
C30_Witness ==
  /\ probe.phase = "out"
  /\ probe.dtd = 3 /\ probe.mode = 1 /\ probe.kinds = << >>
  /\ probe.minSrrHz = 0 /\ probe.maxSrrHz = 0

----------------------------------------------------------------------------
(* The colour gamuts of the summary.  The base block has the sRGB flag set *)
(* or not and chromaticity coordinates nearest to each canonical gamut;    *)
(* the CTA extension holds up to MaxDataBlocks blocks, Colorimetry blocks  *)
(* among them.                                                             *)

\* bytes 25..34 of the base block for 10-bit coordinates, the white point 0
ChromaticityBytes(rx, ry, gx, gy, bx, by) ==
  << (rx % 4) * 64 + (ry % 4) * 16 + (gx % 4) * 4 + (gy % 4), (bx % 4) * 64 + (by % 4) * 16,
     rx \div 4, ry \div 4, gx \div 4, gy \div 4, bx \div 4, by \div 4, 0, 0 >>

\* the primaries of sRGB, Display P3, Adobe RGB and Rec. 2020 in 1/1024, and
\* an unprogrammed block
GamutChromaticities ==
  << [bytes |-> ChromaticityBytes(655, 338, 307, 614, 154, 61), gamut |-> "srgb"],
     [bytes |-> ChromaticityBytes(696, 328, 271, 707, 154, 61), gamut |-> "display_p3"],
     [bytes |-> ChromaticityBytes(655, 338, 215, 727, 154, 61), gamut |-> "adobe_rgb"],
     [bytes |-> ChromaticityBytes(725, 299, 174, 816, 134, 47), gamut |-> "rec_2020"],
     [bytes |-> SeqOf(0, 10), gamut |-> "srgb"] >>

ColorimetryBlk(flags) == << 227, EXT_COLORIMETRY, flags, 0 >>

\* `gamuts` are the gamuts the block's flags stand for
GamutCatalog ==
  << [bytes |-> ColorimetryBlk(16), gamuts |-> { "adobe_rgb" }],
     [bytes |-> ColorimetryBlk(128), gamuts |-> { "rec_2020" }],
     [bytes |-> ColorimetryBlk(96 + 16), gamuts |-> { "adobe_rgb", "rec_2020" }],
     [bytes |-> AudioBlk, gamuts |-> {}] >>

GamutSequences == UNION { [1..n -> 1..Len(GamutCatalog)] : n \in 0..MaxDataBlocks }

RECURSIVE GamutFlatten(_, _)
GamutFlatten(f, i) ==
  IF i > Len(f) THEN << >> ELSE GamutCatalog[f[i]].bytes \o GamutFlatten(f, i + 1)

\* a base block of EDID 1.4 with one extension: feature byte 24,
\* chromaticity at 25, unused standard modes at 38
GamutBase(features, chromaticity) ==
  Block(Header \o SeqOf(0, 10) \o << 1, 4 >> \o SeqOf(0, 4) \o << features >>
        \o chromaticity \o SeqOf(0, 3) \o SeqOf(1, 16) \o SeqOf(0, 72) \o << 1 >>, 0)

InitGamut ==
  /\ MainInit
  /\ probe \in { [phase |-> "in", srgb |-> s, chromaticity |-> c, kinds |-> f,
                  bytes |-> GamutBase(IF s THEN 4 ELSE 0, GamutChromaticities[c].bytes)
                            \o CtaBlock(GamutFlatten(f, 1), 0, 0),
                  colorGamuts |-> << >>] :
                   s \in BOOLEAN, c \in 1..Len(GamutChromaticities), f \in GamutSequences }

\* the extension block is decoded and the summary built from it
ApplyGamut ==
  /\ probe.phase = "in"
  /\ LET ext == parseExtensionBlock(probe.bytes, 0, EmptyContext).ext
         base == parseBaseBlock(probe.bytes)
         features == buildFeatureSupport(base.baseBlock, << ext >>,
                                         base.basicDisplayParams, base.nativeResolution)
     IN  probe' = [probe EXCEPT !.phase = "out", !.colorGamuts = features.colorGamuts]
  /\ UNCHANGED mainVars

NextGamut == ApplyGamut

SpecGamut == InitGamut /\ [][NextGamut]_vars

\* the position of a gamut in the fixed order
GamutRank(gamut) ==
  CASE gamut = "srgb" -> 1 [] gamut = "display_p3" -> 2
    [] gamut = "adobe_rgb" -> 3 [] gamut = "rec_2020" -> 4

\* C28: colorGamuts has no duplicates and lists its members in the order
\* srgb, display_p3, adobe_rgb, rec_2020, in whatever order the sRGB flag,
\* the inferred gamut and the Colorimetry flags were encountered.
C28_GamutsInFixedOrder ==
  probe.phase = "out" =>
    \A i, j \in 1..Len(probe.colorGamuts) :
      i < j => GamutRank(probe.colorGamuts[i]) < GamutRank(probe.colorGamuts[j])

\* Rec. 2020 primaries, then a Rec. 2020 and an Adobe RGB Colorimetry block:
\* the gamuts were met as rec_2020, srgb, adobe_rgb
C28_Witness ==
  /\ probe.phase = "out"
  /\ probe.chromaticity = 4 /\ ~probe.srgb /\ probe.kinds = << 2, 1 >>
  /\ probe.colorGamuts = << "srgb", "adobe_rgb", "rec_2020" >>

============================================================================
